---- MODULE Spec2Model ----
(***************************************************************************)
(* Model of the notes/TODO server (src/server.js, second revision, lines   *)
(* 358-1079): TODO extraction, the line rewriter, the reconcile            *)
(* (extractAndSaveTodos) and the request handlers that drive them.         *)
(*                                                                         *)
(* Text is modelled as it is in the program: a string is a sequence of     *)
(* one-character strings, a note's content is one such sequence with "\n"  *)
(* separators, split and joined as the code does.                          *)
(***************************************************************************)
EXTENDS Integers, Sequences, FiniteSets, TLC

NULL == "null"

(***************************************************************************)
(* String primitives (JavaScript String methods and the regexps used).     *)
(***************************************************************************)
NL == "\n"

\* \s of the regexps and the characters String.prototype.trim removes
IsWS(c) == c \in {" ", "\t"}

\* case folding of the /i flag, over the letters of the priority tokens
Upper(c) ==
    CASE c = "t" -> "T" [] c = "o" -> "O" [] c = "d" -> "D"
      [] c = "h" -> "H" [] c = "i" -> "I" [] c = "g" -> "G"
      [] c = "m" -> "M" [] c = "e" -> "E" [] c = "u" -> "U"
      [] c = "l" -> "L" [] c = "w" -> "W"
      [] OTHER -> c

RECURSIVE TrimLeft(_)
TrimLeft(s) ==
    IF s = <<>> THEN <<>>
    ELSE IF IsWS(Head(s)) THEN TrimLeft(Tail(s)) ELSE s

RECURSIVE TrimRight(_)
TrimRight(s) ==
    IF s = <<>> THEN <<>>
    ELSE IF IsWS(s[Len(s)]) THEN TrimRight(SubSeq(s, 1, Len(s) - 1)) ELSE s

Trim(s) == TrimRight(TrimLeft(s))

\* s.startsWith(c) for a one-character c
StartsWith(s, c) == s # <<>> /\ Head(s) = c

\* content.split('\n')
RECURSIVE SplitLines(_)
SplitLines(s) ==
    IF \A k \in 1..Len(s) : s[k] # NL THEN <<s>>
    ELSE LET p == CHOOSE k \in 1..Len(s) :
                     s[k] = NL /\ \A j \in 1..(k - 1) : s[j] # NL
         IN  <<SubSeq(s, 1, p - 1)>> \o SplitLines(SubSeq(s, p + 1, Len(s)))

\* lines.join('\n')
RECURSIVE JoinLines(_)
JoinLines(ls) ==
    IF Len(ls) = 0 THEN <<>>
    ELSE IF Len(ls) = 1 THEN ls[1]
    ELSE ls[1] \o <<NL>> \o JoinLines(Tail(ls))

\* decimal rendering of a non-negative integer inside a template literal
Digit(d) == CASE d = 0 -> "0" [] d = 1 -> "1" [] d = 2 -> "2" [] d = 3 -> "3"
              [] d = 4 -> "4" [] d = 5 -> "5" [] d = 6 -> "6" [] d = 7 -> "7"
              [] d = 8 -> "8" [] d = 9 -> "9"

RECURSIVE ToDigits(_)
ToDigits(n) == IF n < 10 THEN <<Digit(n)>>
               ELSE ToDigits(n \div 10) \o <<Digit(n % 10)>>

\* an identifier that counts the lines from one
MakeTodoIdOneBased(noteKey, i) == noteKey \o <<"-">> \o ToDigits(i + 1)

\* `${noteId}-${i}`
MakeTodoId(noteKey, i) == noteKey \o <<"-">> \o ToDigits(i)

\* todoId.split('-')[0]
NotePrefixOf(todoId) == SplitLines([k \in 1..Len(todoId) |->
                                      IF todoId[k] = "-" THEN NL ELSE todoId[k]])[1]

\* number of leading '#' characters
RECURSIVE CountHashes(_)
CountHashes(s) == IF s # <<>> /\ Head(s) = "#" THEN 1 + CountHashes(Tail(s)) ELSE 0

\* the TODO heading pattern without its /i flag
IsTodoHeadingCaseSensitive(line) ==
    LET h    == CountHashes(line)
        rest == Trim(SubSeq(line, h + 1, Len(line)))
    IN  /\ h >= 1
        /\ Len(rest) = 4
        /\ [k \in 1..4 |-> rest[k]] = <<"T", "O", "D", "O">>

\* line.match(/^#+\s*TODO\s*$/i)
IsTodoHeading(line) ==
    LET h    == CountHashes(line)
        rest == Trim(SubSeq(line, h + 1, Len(line)))
    IN  /\ h >= 1
        /\ Len(rest) = 4
        /\ [k \in 1..4 |-> Upper(rest[k])] = <<"T", "O", "D", "O">>

\* line.match(/^#+\s/)
IsHeading(line) ==
    LET h == CountHashes(line)
    IN  h >= 1 /\ Len(line) > h /\ IsWS(line[h + 1])

(***************************************************************************)
(* Priority lexer: the priorityPatterns table of extractTodos.             *)
(***************************************************************************)
\* a table that tests the one-character token '!' first
priorityPatternsBangFirst ==
    << [tok |-> <<"!">>,                                    priority |-> "low"],
       [tok |-> <<"[", "H", "]">>,                          priority |-> "high"],
       [tok |-> <<"[", "H", "I", "G", "H", "]">>,           priority |-> "high"],
       [tok |-> <<"!", "!", "!">>,                          priority |-> "high"],
       [tok |-> <<"[", "M", "]">>,                          priority |-> "medium"],
       [tok |-> <<"[", "M", "E", "D", "]">>,                priority |-> "medium"],
       [tok |-> <<"[", "M", "E", "D", "I", "U", "M", "]">>, priority |-> "medium"],
       [tok |-> <<"!", "!">>,                               priority |-> "medium"],
       [tok |-> <<"[", "L", "]">>,                          priority |-> "low"],
       [tok |-> <<"[", "L", "O", "W", "]">>,                priority |-> "low"] >>

priorityPatterns ==
    << [tok |-> <<"[", "H", "]">>,                          priority |-> "high"],
       [tok |-> <<"[", "H", "I", "G", "H", "]">>,           priority |-> "high"],
       [tok |-> <<"!", "!", "!">>,                          priority |-> "high"],
       [tok |-> <<"[", "M", "]">>,                          priority |-> "medium"],
       [tok |-> <<"[", "M", "E", "D", "]">>,                priority |-> "medium"],
       [tok |-> <<"[", "M", "E", "D", "I", "U", "M", "]">>, priority |-> "medium"],
       [tok |-> <<"!", "!">>,                               priority |-> "medium"],
       [tok |-> <<"[", "L", "]">>,                          priority |-> "low"],
       [tok |-> <<"[", "L", "O", "W", "]">>,                priority |-> "low"],
       [tok |-> <<"!">>,                                    priority |-> "low"] >>

\* pattern.test(todoText): the token at the front, letters compared
\* case-insensitively (the '!' patterns have no letters)
PatternTest(p, s) ==
    /\ Len(s) >= Len(p.tok)
    /\ \A k \in 1..Len(p.tok) : Upper(s[k]) = p.tok[k]

\* todoText.replace(pattern, ''): the token and the whitespace after it
PatternStrip(p, s) == TrimLeft(SubSeq(s, Len(p.tok) + 1, Len(s)))

\* the for-loop over priorityPatterns with its break on the first match
LexPriority(todoText) ==
    LET hits == {k \in 1..Len(priorityPatterns) :
                    PatternTest(priorityPatterns[k], todoText)}
    IN  IF hits = {} THEN [priority |-> "medium", text |-> todoText]
        ELSE LET k == CHOOSE x \in hits : \A y \in hits : x <= y
             IN  [priority |-> priorityPatterns[k].priority,
                  text     |-> PatternStrip(priorityPatterns[k], todoText)]

(***************************************************************************)
(* extractTodos(noteId, content, noteTitle)                                *)
(***************************************************************************)
\* the object pushed for one list line; createdDate (wall clock) is left out
NewTodo(noteKey, noteId, noteTitle, i, lexed) ==
    [ id                |-> MakeTodoId(noteKey, i),
      noteId            |-> noteId,
      noteTitle         |-> noteTitle,
      text              |-> lexed.text,
      completed         |-> FALSE,
      completedDate     |-> NULL,
      completionComment |-> NULL,
      priority          |-> lexed.priority ]

\* the loop body from line index i (zero-based, as in the code) onwards
RECURSIVE ExtractFrom(_, _, _, _, _, _)
ExtractFrom(noteKey, noteId, noteTitle, lines, i, inTodoSection) ==
    IF i >= Len(lines) THEN <<>>
    ELSE
      LET line == Trim(lines[i + 1])
          Rest(sec) == ExtractFrom(noteKey, noteId, noteTitle, lines, i + 1, sec)
      IN  IF IsTodoHeading(line) THEN Rest(TRUE)
          ELSE IF ~inTodoSection THEN Rest(FALSE)
          ELSE IF StartsWith(line, "-") \/ StartsWith(line, "*") THEN
                 LET todoText == Trim(Tail(line))
                 IN  IF todoText # <<>>
                     THEN <<NewTodo(noteKey, noteId, noteTitle, i,
                                    LexPriority(todoText))>> \o Rest(TRUE)
                     ELSE Rest(TRUE)
          ELSE IF IsHeading(line) THEN Rest(FALSE)
          ELSE IF /\ line # <<>>
                  /\ ~StartsWith(line, " ") /\ ~StartsWith(line, "\t")
                  /\ ~StartsWith(line, "-") /\ ~StartsWith(line, "*")
               THEN Rest(FALSE)
          ELSE Rest(TRUE)

\* an extractTodos that stops reading at the heading that closes the first
\* TODO section
extractTodosUntilClosed(noteId, content, noteTitle) ==
    LET lines   == SplitLines(content)
        closers == {j \in 1..Len(lines) :
                      /\ IsHeading(Trim(lines[j]))
                      /\ ~IsTodoHeading(Trim(lines[j]))
                      /\ \E h \in 1..(j - 1) : IsTodoHeading(Trim(lines[h]))}
        first   == CHOOSE j \in closers : \A k \in closers : j <= k
    IN  ExtractFrom(ToDigits(noteId), noteId, noteTitle,
                    IF closers = {} THEN lines ELSE SubSeq(lines, 1, first - 1),
                    0, FALSE)

\* an extractTodos whose inTodoSection starts as true
extractTodosOpenSection(noteId, content, noteTitle) ==
    ExtractFrom(ToDigits(noteId), noteId, noteTitle, SplitLines(content), 0, TRUE)

\* noteKey is the text the identifier template renders for noteId
extractTodos(noteId, content, noteTitle) ==
    ExtractFrom(ToDigits(noteId), noteId, noteTitle, SplitLines(content), 0, FALSE)

(***************************************************************************)
(* updateTodoInNoteContent(content, todoId, newText, newPriority)          *)
(***************************************************************************)
\* the switch on newPriority
PriorityPrefix(newPriority) ==
    CASE newPriority = "high" -> <<"[", "H", "]", " ">>
      [] newPriority = "low"  -> <<"[", "L", "]", " ">>
      [] OTHER                -> <<>>

\* line.match(/^(\s*)/)[1]
Indent(line) == SubSeq(line, 1, Len(line) - Len(TrimLeft(line)))

RECURSIVE RewriteFrom(_, _, _, _, _, _)
RewriteFrom(lines, todoId, newText, newPriority, i, inTodoSection) ==
    IF i >= Len(lines) THEN <<>>
    ELSE
      LET line        == lines[i + 1]
          trimmedLine == Trim(line)
          Rest(sec)   == RewriteFrom(lines, todoId, newText, newPriority, i + 1, sec)
      IN  IF IsTodoHeading(trimmedLine) THEN <<line>> \o Rest(TRUE)
          ELSE IF ~inTodoSection THEN <<line>> \o Rest(FALSE)
          ELSE IF StartsWith(trimmedLine, "-") \/ StartsWith(trimmedLine, "*") THEN
                 IF MakeTodoId(NotePrefixOf(todoId), i) = todoId
                 THEN LET listMarker == IF StartsWith(trimmedLine, "-")
                                        THEN "-" ELSE "*"
                      IN  << Indent(line) \o <<listMarker, " ">>
                               \o PriorityPrefix(newPriority) \o newText >>
                          \o Rest(TRUE)
                 ELSE <<line>> \o Rest(TRUE)
          ELSE IF IsHeading(trimmedLine) THEN <<line>> \o Rest(FALSE)
          ELSE IF /\ trimmedLine # <<>>
                  /\ ~StartsWith(trimmedLine, " ") /\ ~StartsWith(trimmedLine, "\t")
                  /\ ~StartsWith(trimmedLine, "-") /\ ~StartsWith(trimmedLine, "*")
               THEN <<line>> \o Rest(FALSE)
          ELSE <<line>> \o Rest(TRUE)

\* an updateTodoInNoteContent whose inTodoSection starts as true
updateTodoInNoteContentOpenSection(content, todoId, newText, newPriority) ==
    JoinLines(RewriteFrom(SplitLines(content), todoId, newText, newPriority, 0, TRUE))

updateTodoInNoteContent(content, todoId, newText, newPriority) ==
    JoinLines(RewriteFrom(SplitLines(content), todoId, newText, newPriority, 0, FALSE))

(***************************************************************************)
(* Bounds and input sets.                                                  *)
(***************************************************************************)
MaxNotes    == 2     \* note rows ever created (AUTOINCREMENT ids 1..MaxNotes)
MaxRequests == 2     \* requests admitted in one behaviour
MaxFaults   == 1     \* store operations that fail for an external reason

Reqs == 1..2         \* request slots that may be in flight together

Priorities == {"low", "medium", "high"}
UNDEFINED  == "undefined"
Titles     == {"t1", "t2"}
Dates      == {"d1"}             \* values of new Date().toISOString()

\* request bodies of PUT /api/todos/:id: complete with a comment, set the
\* priority of an open todo
\* the third body supplies a priority only: its completed is undefined, which
\* the handler reads as false and the store keeps as NULL, read as false
TodoBodies ==
    { [completed |-> TRUE,  completedGiven |-> TRUE,
       completionComment |-> "c1", priority |-> UNDEFINED],
      [completed |-> FALSE, completedGiven |-> TRUE,
       completionComment |-> NULL, priority |-> "low"],
      [completed |-> FALSE, completedGiven |-> FALSE,
       completionComment |-> NULL, priority |-> "high"],
      [completed |-> FALSE, completedGiven |-> TRUE,
       completionComment |-> "c1", priority |-> UNDEFINED] }

\* sample lines
LnTodo  == <<"#", "#", " ", "T", "O", "D", "O">>
LnNotes == <<"#", " ", "N">>
LnA     == <<"-", " ", "a">>
LnAHigh == <<"-", " ", "[", "H", "]", " ", "a">>
LnB     == <<"*", " ", "b">>

\* note bodies a client writes
Contents ==
    { JoinLines(<<LnTodo, LnA>>),
      JoinLines(<<LnTodo, LnAHigh>>),
      JoinLines(<<LnTodo, LnA, LnA>>),
      JoinLines(<<LnNotes, LnTodo, LnB, LnA>>),
      JoinLines(<<LnA>>) }

\* texts a client sends to the todo edit endpoint
EditTexts == { <<"b">> }

\* an identifier no row has
MissingTodoId == <<"9", "-", "9">>

\* the identifier and the row of a todo that migration 3 copied from
\* standalone_todos: INSERT INTO todos ... SELECT id, NULL, NULL, text, ...
StandaloneId == <<"s">>
StandaloneTodo ==
    [ text               |-> <<"s">>,
      priority           |-> "medium",
      completed          |-> FALSE,
      completed_date     |-> NULL,
      completion_comment |-> NULL ]
StandaloneRow ==
    [ note_id            |-> 0,
      note_title         |-> NULL,
      text               |-> <<"s">>,
      completed          |-> FALSE,
      completed_date     |-> NULL,
      completion_comment |-> NULL,
      priority           |-> "medium" ]

(***************************************************************************)
(* State.                                                                  *)
(***************************************************************************)
VARIABLES
    notes,      \* notes table: id -> [title, content]
    lastID,     \* AUTOINCREMENT sequence of notes.id
    todos,      \* todos table: id -> row
    req,        \* per slot: the request handler's position and locals
    rec,        \* per slot: the extractAndSaveTodos call it started
    resp,       \* per slot: the response sent ("none" while unanswered)
    nreq,       \* requests admitted so far
    nfault,     \* store failures injected so far
    overlap,    \* history: some request was admitted while another was active
    env,        \* the environment of the run: how requests arrive, whether
                \* the store may fail
    note_tags,  \* note_tags table: note id -> set of tag names
    todo_tags,  \* todo_tags table: todo id -> set of tag names
    inherit,    \* the tag inheritance that follows a reconcile: its note and
                \* the todos still to be tagged
    doc,        \* a Markdown body, as its sequence of lines
    result,     \* the last application of the extractor or of the rewriter
    migrations, \* migrations table (the ledger): the versions recorded
    mm,         \* the MigrationManager: the position of runMigrations
    tags,       \* tags table: rows [id, name], name UNIQUE
    norm,       \* the up script of migration 4: its promise, its counters and
                \* the position of the statements of each (note, tag) pair
    standalone_todos
                \* standalone_todos table: whether it exists, and its rows
                \* id -> [text, priority, completed, completed_date,
                \* completion_comment]

\* the tables of the normalized tag system, which no handler of server.js
\* reads or writes
tagVars == <<note_tags, todo_tags, inherit>>

\* the text a parsing function is applied to, outside any request
textVars == <<doc, result>>

\* the schema ledger and the run of the migrations at startup
migVars == <<migrations, mm, tags, norm, standalone_todos>>

vars == <<notes, lastID, todos, req, rec, resp, nreq, nfault, overlap, env,
          tagVars, textVars, migVars>>

\* the versions of the migrations list
MigVersions == {1, 2, 3, 4}

\* pending: the versions still to run; currentVersion: the version read at
\* the start of the run.  History, for the properties: startups (runs
\* started), ran (how often each up script has completed, over all runs),
\* thisRun (the up scripts completed in this run, in order), failedAt (the
\* version whose up script or ledger record failed in this run, else 0)
NoNorm == [pc |-> "off"]

\* no table standalone_todos in the database
NoTable == [exists |-> FALSE, rows |-> <<>>]

NoMig == [pc |-> "off", pending |-> <<>>, currentVersion |-> 0, startups |-> 0,
          ran |-> [v \in MigVersions |-> 0], thisRun |-> <<>>, failedAt |-> 0]

NoInherit == [noteId |-> 0, pending |-> {}]
NoResult  == [op |-> "none"]

\* a slot whose handler has returned (or never ran) holds no locals
\* (wrote, for the properties: the handler has changed a table)
IdleReq == [kind |-> "none", pc |-> "idle", noteId |-> 0, todoId |-> <<>>,
            title |-> NULL, content |-> <<>>, text |-> <<>>, priority |-> NULL,
            wrote |-> FALSE, completed |-> FALSE, completedGiven |-> FALSE]

NoEdit == [id |-> <<>>, text |-> <<>>, priority |-> NULL]

\* noteId, content, noteTitle, existingTodosMap: the call's arguments and
\* closure; pending: the INSERTs queued and not yet run.  History, for the
\* properties: pre (the note's rows when the call started), edit (the todo
\* edit that made the call), failed (some store operation of the call
\* failed), afterFail (an operation of the call ran after one had failed)
NoRec == [pc |-> "none", noteId |-> 0, content |-> <<>>, noteTitle |-> NULL,
          existingTodosMap |-> <<>>, pending |-> {},
          pre |-> {}, edit |-> NoEdit, failed |-> FALSE, afterFail |-> FALSE]

\* a call that has ended keeps its outcome only
EndRec(pc, failed, afterFail) ==
    [NoRec EXCEPT !.pc = pc, !.failed = failed, !.afterFail = afterFail]

\* rows of the todos table with a given note reference, as [id, row] pairs
RowsOf(tbl, noteId) ==
    {[id |-> k, row |-> tbl[k]] : k \in {j \in DOMAIN tbl : tbl[j].note_id = noteId}}

\* v || d
OrDefault(v, d) == IF v = NULL THEN d ELSE v

\* the row one INSERT of extractAndSaveTodos writes
TodoRow(todo) ==
    [ note_id            |-> todo.noteId,
      note_title         |-> todo.noteTitle,
      text               |-> todo.text,
      completed          |-> todo.completed,
      completed_date     |-> todo.completedDate,
      completion_comment |-> todo.completionComment,
      priority           |-> OrDefault(todo.priority, "medium") ]

\* the database as a previous, quiescent run left it: one note, the rows
\* its reconcile wrote, and the standalone todo the migration merged in
Init ==
    /\ \E c \in Contents :
         /\ notes = (1 :> [title |-> "t1", content |-> c])
         /\ todos = LET ex == extractTodos(1, c, "t1")
                    IN  (StandaloneId :> StandaloneRow) @@
                        [k \in {ex[j].id : j \in 1..Len(ex)} |->
                           TodoRow(CHOOSE t \in {ex[j] : j \in 1..Len(ex)} : t.id = k)]
    /\ lastID = 1
    /\ req = [r \in Reqs |-> IdleReq]
    /\ rec = [r \in Reqs |-> NoRec]
    /\ resp = [r \in Reqs |-> "none"]
    /\ nreq = 0
    /\ nfault = 0
    /\ overlap = FALSE
    /\ env \in {"sequential", "overlapping"}
    /\ note_tags = <<>>
    /\ todo_tags = <<>>
    /\ inherit = NoInherit
    /\ doc = <<>>
    /\ result = NoResult
    /\ migrations = MigVersions
    /\ mm = NoMig
    /\ tags = <<>>
    /\ norm = NoNorm
    /\ standalone_todos = NoTable

(***************************************************************************)
(* Admission of a request into a slot, and store failures.                 *)
(***************************************************************************)
RecActive(r) == rec[r].pc \in {"select", "delete", "insert"}
ReqActive(r) == req[r].pc # "idle"
Free(r)      == ~ReqActive(r) /\ ~RecActive(r)
Quiescent    == \A r \in Reqs : Free(r)

LowestFree(r) == Free(r) /\ \A q \in Reqs : q < r => ~Free(q)

\* a request starts in slot r.  In a sequential run the client sends the
\* next request when the previous one and the reconcile it started have
\* finished; in an overlapping run a request arrives at any time and takes
\* the lowest free slot
Admit(r) ==
    /\ IF env = "sequential" THEN r = 1 /\ Quiescent ELSE LowestFree(r)
    /\ nreq < MaxRequests
    /\ nreq' = nreq + 1
    /\ overlap' = (overlap \/ \E q \in Reqs \ {r} : ~Free(q))
    /\ UNCHANGED env

\* a store operation either succeeds (fail = FALSE) or reports an error.
\* Errors of the store itself are injected in sequential runs only; in
\* overlapping runs the store is reliable and the only failing operation is
\* an INSERT that meets a PRIMARY KEY conflict
Fault(fail) ==
    /\ fail => (env = "sequential" /\ nfault < MaxFaults)
    /\ nfault' = IF fail THEN nfault + 1 ELSE nfault

\* a call that is handed the content the note row held before the write
StartRecStale(noteId, content, noteTitle, edit) ==
    [NoRec EXCEPT !.pc = "select", !.noteId = noteId,
                  !.content = IF noteId \in DOMAIN notes
                              THEN notes[noteId].content ELSE content,
                  !.noteTitle = noteTitle, !.pre = RowsOf(todos, noteId),
                  !.edit = edit]

\* extractAndSaveTodos(noteId, content, noteTitle) up to its first db.all
StartRec(noteId, content, noteTitle, edit) ==
    [NoRec EXCEPT !.pc = "select", !.noteId = noteId, !.content = content,
                  !.noteTitle = noteTitle, !.pre = RowsOf(todos, noteId),
                  !.edit = edit]

(***************************************************************************)
(* extractAndSaveTodos: one action per store operation and its callback.   *)
(***************************************************************************)
\* the maps existingTodos.forEach(todo => map.set(todo.text, todo)) can build:
\* one row per text; which row of several with one text comes last depends
\* on the row order of a SELECT without ORDER BY
ExistingTodosMaps(rows) ==
    LET texts == {x.row.text : x \in rows}
    IN  {m \in [texts -> {x.row : x \in rows}] : \A t \in texts : m[t].text = t}

\* a carry-forward that takes the data of some stored row of the note when
\* none has the text of the candidate
CarryForwardAnyRow(todo, existingTodosMap) ==
    IF DOMAIN existingTodosMap # {}
    THEN LET existingTodo ==
                IF todo.text \in DOMAIN existingTodosMap
                THEN existingTodosMap[todo.text]
                ELSE existingTodosMap[CHOOSE t \in DOMAIN existingTodosMap : TRUE]
         IN  [todo EXCEPT !.completed         = existingTodo.completed,
                          !.completedDate     = existingTodo.completed_date,
                          !.completionComment = existingTodo.completion_comment,
                          !.priority = OrDefault(existingTodo.priority, "medium")]
    ELSE todo

\* a carry-forward that takes the completed flag but leaves the completion
\* date and comment of the fresh candidate
CarryForwardFlagOnly(todo, existingTodosMap) ==
    IF todo.text \in DOMAIN existingTodosMap
    THEN [todo EXCEPT !.completed = existingTodosMap[todo.text].completed,
                      !.priority  = OrDefault(existingTodosMap[todo.text].priority,
                                              "medium")]
    ELSE todo

\* the body of newTodos.forEach before the INSERT: carry the stored
\* completion data (and priority) over to a candidate with the same text
CarryForward(todo, existingTodosMap) ==
    IF todo.text \in DOMAIN existingTodosMap
    THEN LET existingTodo == existingTodosMap[todo.text]
         IN  [todo EXCEPT !.completed         = existingTodo.completed,
                          !.completedDate     = existingTodo.completed_date,
                          !.completionComment = existingTodo.completion_comment,
                          !.priority = OrDefault(existingTodo.priority, "medium")]
    ELSE todo

\* a DELETE with no WHERE clause
DeleteTodosOfEvery(tbl, noteId) == [k \in {} |-> tbl[k]]

\* a DELETE whose WHERE clause matches no row
DeleteTodosOfNothing(tbl, noteId) == tbl

\* DELETE FROM todos WHERE note_id = ?
DeleteTodosOf(tbl, noteId) ==
    [k \in {j \in DOMAIN tbl : tbl[j].note_id # noteId} |-> tbl[k]]

\* db.all('SELECT * FROM todos WHERE note_id = ?') and its callback
RecSelect(r) ==
    /\ rec[r].pc = "select"
    /\ \E fail \in BOOLEAN :
         /\ Fault(fail)
         /\ IF fail
            THEN rec' = [rec EXCEPT ![r] = EndRec("failed", TRUE, FALSE)]
            ELSE \E m \in ExistingTodosMaps(RowsOf(todos, rec[r].noteId)) :
                   rec' = [rec EXCEPT ![r].pc = "delete",
                                      ![r].existingTodosMap = m]
    /\ UNCHANGED <<notes, lastID, todos, req, resp, nreq, overlap, env>>
    /\ UNCHANGED <<tagVars, textVars, migVars>>

\* db.run('DELETE FROM todos WHERE note_id = ?') and its callback, which
\* issues one INSERT per candidate
RecDelete(r) ==
    /\ rec[r].pc = "delete"
    /\ \E fail \in BOOLEAN :
         /\ Fault(fail)
         /\ IF fail
            THEN /\ rec' = [rec EXCEPT ![r] = EndRec("failed", TRUE, FALSE)]
                 /\ UNCHANGED todos
            ELSE LET newTodos == extractTodos(rec[r].noteId, rec[r].content,
                                              rec[r].noteTitle)
                     inserts  == {CarryForward(newTodos[j], rec[r].existingTodosMap) :
                                     j \in 1..Len(newTodos)}
                 IN  /\ todos' = DeleteTodosOf(todos, rec[r].noteId)
                     /\ rec' = [rec EXCEPT ![r] =
                                  IF inserts = {} THEN EndRec("done", FALSE, FALSE)
                                  ELSE [@ EXCEPT !.pc = "insert",
                                                 !.pending = inserts]]
    /\ UNCHANGED <<notes, lastID, req, resp, nreq, overlap, env>>
    /\ UNCHANGED <<tagVars, textVars, migVars>>

\* one of the queued db.run('INSERT INTO todos ...'); there is no callback,
\* so a failure (an injected one, or a PRIMARY KEY conflict) goes unnoticed
RecInsert(r) ==
    /\ rec[r].pc = "insert"
    /\ \E todo \in rec[r].pending, fail \in BOOLEAN :
         /\ Fault(fail)
         /\ LET failed == fail \/ todo.id \in DOMAIN todos
                left   == rec[r].pending \ {todo}
            IN  /\ todos' = IF failed THEN todos
                            ELSE (todo.id :> TodoRow(todo)) @@ todos
                /\ rec' = [rec EXCEPT ![r] =
                             IF left = {}
                             THEN EndRec("done", @.failed \/ failed,
                                         @.afterFail \/ @.failed)
                             ELSE [@ EXCEPT !.pending   = left,
                                            !.failed    = @ \/ failed,
                                            !.afterFail = @ \/ rec[r].failed]]
    /\ UNCHANGED <<notes, lastID, req, resp, nreq, overlap, env>>
    /\ UNCHANGED <<tagVars, textVars, migVars>>

(***************************************************************************)
(* Request handlers: one action per store operation and its callback.      *)
(***************************************************************************)
\* POST /api/notes
PostNote(r) ==
    /\ Admit(r)
    /\ lastID < MaxNotes
    /\ \E title \in Titles, content \in Contents, fail \in BOOLEAN :
         /\ Fault(fail)
         /\ req' = [req EXCEPT ![r] = IdleReq]
         /\ IF fail
            THEN /\ resp' = [resp EXCEPT ![r] = "500"]
                 /\ rec' = [rec EXCEPT ![r] = NoRec]
                 /\ UNCHANGED <<notes, lastID>>
            ELSE /\ lastID' = lastID + 1
                 /\ notes' = (lastID + 1 :> [title |-> title, content |-> content])
                               @@ notes
                 /\ rec' = [rec EXCEPT ![r] = StartRec(lastID + 1, content, title, NoEdit)]
                 /\ resp' = [resp EXCEPT ![r] = "200"]
    /\ UNCHANGED todos
    /\ UNCHANGED <<tagVars, textVars, migVars>>

\* a PUT /api/notes/:id whose callback calls extractAndSaveTodos before it
\* looks at this.changes
PutNoteReconcilesFirst(r) ==
    /\ Admit(r)
    /\ \E id \in 1..MaxNotes, title \in Titles, content \in Contents,
          fail \in BOOLEAN :
         /\ Fault(fail)
         /\ LET q == [IdleReq EXCEPT !.kind = "putNote", !.noteId = id]
            IN  IF fail
                THEN /\ req' = [req EXCEPT ![r] = IdleReq]
                     /\ resp' = [resp EXCEPT ![r] = "500"]
                     /\ rec' = [rec EXCEPT ![r] = NoRec]
                     /\ UNCHANGED notes
                ELSE IF id \notin DOMAIN notes
                THEN /\ req' = [req EXCEPT ![r] = IdleReq]
                     /\ resp' = [resp EXCEPT ![r] = "404"]
                     /\ rec' = [rec EXCEPT ![r] = StartRec(id, content, title, NoEdit)]
                     /\ UNCHANGED notes
                ELSE /\ req' = [req EXCEPT ![r] = [q EXCEPT !.pc = "get",
                                                              !.wrote = TRUE]]
                     /\ resp' = [resp EXCEPT ![r] = "none"]
                     /\ notes' = [notes EXCEPT ![id] =
                                    [title |-> title, content |-> content]]
                     /\ rec' = [rec EXCEPT ![r] = StartRec(id, content, title, NoEdit)]
    /\ UNCHANGED <<lastID, todos>>
    /\ UNCHANGED <<tagVars, textVars, migVars>>

\* PUT /api/notes/:id, the UPDATE and its callback
PutNote(r) ==
    /\ Admit(r)
    /\ \E id \in 1..MaxNotes, title \in Titles, content \in Contents,
          fail \in BOOLEAN :
         /\ Fault(fail)
         /\ LET q == [IdleReq EXCEPT !.kind = "putNote", !.noteId = id]
            IN  IF fail
                THEN /\ req' = [req EXCEPT ![r] = IdleReq]
                     /\ resp' = [resp EXCEPT ![r] = "500"]
                     /\ rec' = [rec EXCEPT ![r] = NoRec]
                     /\ UNCHANGED notes
                ELSE IF id \notin DOMAIN notes
                THEN /\ req' = [req EXCEPT ![r] = IdleReq]
                     /\ resp' = [resp EXCEPT ![r] = "404"]
                     /\ rec' = [rec EXCEPT ![r] = NoRec]
                     /\ UNCHANGED notes
                ELSE /\ req' = [req EXCEPT ![r] = [q EXCEPT !.pc = "get",
                                                              !.wrote = TRUE]]
                     /\ resp' = [resp EXCEPT ![r] = "none"]
                     /\ notes' = [notes EXCEPT ![id] =
                                    [title |-> title, content |-> content]]
                     /\ rec' = [rec EXCEPT ![r] = StartRec(id, content, title, NoEdit)]
    /\ UNCHANGED <<lastID, todos>>
    /\ UNCHANGED <<tagVars, textVars, migVars>>

\* PUT /api/notes/:id, the SELECT of the updated note and its callback;
\* with no row the callback reads row.tags of undefined and throws
PutNoteGet(r) ==
    /\ req[r].kind = "putNote" /\ req[r].pc = "get"
    /\ \E fail \in BOOLEAN :
         /\ Fault(fail)
         /\ resp' = [resp EXCEPT ![r] =
                       IF fail THEN "500"
                       ELSE IF req[r].noteId \in DOMAIN notes THEN "200"
                       ELSE "throw"]
    /\ req' = [req EXCEPT ![r] = IdleReq]
    /\ UNCHANGED <<notes, lastID, todos, rec, nreq, overlap, env>>
    /\ UNCHANGED <<tagVars, textVars, migVars>>

\* whether the connection enforces FOREIGN KEY ... ON DELETE CASCADE: the
\* server opens the database and never issues PRAGMA foreign_keys = ON
ForeignKeys == FALSE

\* DELETE FROM notes WHERE id = ?
DeleteNoteRow(tbl, id) == [k \in DOMAIN tbl \ {id} |-> tbl[k]]

\* DELETE /api/notes/:id
DeleteNote(r) ==
    /\ Admit(r)
    /\ \E id \in 1..MaxNotes, fail \in BOOLEAN :
         /\ Fault(fail)
         /\ req' = [req EXCEPT ![r] = IdleReq]
         /\ rec' = [rec EXCEPT ![r] = NoRec]
         /\ IF fail
            THEN /\ resp' = [resp EXCEPT ![r] = "500"]
                 /\ UNCHANGED <<notes, todos>>
            ELSE IF id \notin DOMAIN notes
            THEN /\ resp' = [resp EXCEPT ![r] = "404"]
                 /\ UNCHANGED <<notes, todos>>
            ELSE /\ resp' = [resp EXCEPT ![r] = "200"]
                 /\ notes' = DeleteNoteRow(notes, id)
                 /\ todos' = IF ForeignKeys THEN DeleteTodosOf(todos, id) ELSE todos
    /\ UNCHANGED lastID
    /\ UNCHANGED <<tagVars, textVars, migVars>>

\* !todo.note_id: a NULL note reference is modelled as 0
IsNullRef(noteId) == noteId = 0

\* identifiers a client may name: those of stored rows and one of no row
TodoIds == DOMAIN todos \cup {MissingTodoId}

\* UPDATE todos SET completed = ?, completed_date = ?, completion_comment = ?
\* [, priority = ?] WHERE id = ?
UpdateTodoRow(row, completed, completedDate, completionComment, priority) ==
    [row EXCEPT !.completed          = completed,
                !.completed_date     = completedDate,
                !.completion_comment = OrDefault(completionComment, NULL),
                !.priority = IF priority # UNDEFINED THEN priority ELSE @]

\* PUT /api/todos/:id, the UPDATE and its callback
PutTodo(r) ==
    /\ Admit(r)
    /\ \E id \in TodoIds, body \in TodoBodies, now \in Dates, fail \in BOOLEAN :
         /\ Fault(fail)
         /\ LET completed         == body.completed
                q == [IdleReq EXCEPT !.kind = "putTodo", !.todoId = id,
                                     !.completed = completed,
                                     !.completedGiven = body.completedGiven,
                                     !.priority = body.priority]
                completionComment == body.completionComment
                priority          == body.priority
                completedDate     == IF completed THEN now ELSE NULL
            IN  IF fail
                THEN /\ req' = [req EXCEPT ![r] = IdleReq]
                     /\ resp' = [resp EXCEPT ![r] = "500"]
                     /\ UNCHANGED todos
                ELSE IF id \notin DOMAIN todos
                THEN /\ req' = [req EXCEPT ![r] = IdleReq]
                     /\ resp' = [resp EXCEPT ![r] = "404"]
                     /\ UNCHANGED todos
                ELSE /\ req' = [req EXCEPT ![r] = [q EXCEPT !.pc = "get",
                                                              !.wrote = TRUE]]
                     /\ resp' = [resp EXCEPT ![r] = "none"]
                     /\ todos' = [todos EXCEPT ![id] =
                                    UpdateTodoRow(@, completed, completedDate,
                                                  completionComment, priority)]
    /\ rec' = [rec EXCEPT ![r] = NoRec]
    /\ UNCHANGED <<notes, lastID>>
    /\ UNCHANGED <<tagVars, textVars, migVars>>

\* PUT /api/todos/:id, the SELECT of the updated row and its callback; with
\* no row the callback reads row.completed of undefined and throws
PutTodoGet(r) ==
    /\ req[r].kind = "putTodo" /\ req[r].pc = "get"
    /\ \E fail \in BOOLEAN :
         /\ Fault(fail)
         /\ resp' = [resp EXCEPT ![r] =
                       IF fail THEN "500"
                       ELSE IF req[r].todoId \in DOMAIN todos THEN "200"
                       ELSE "throw"]
    /\ req' = [req EXCEPT ![r] = IdleReq]
    /\ UNCHANGED <<notes, lastID, todos, rec, nreq, overlap, env>>
    /\ UNCHANGED <<tagVars, textVars, migVars>>

\* PUT /api/todos/:id/edit, the SELECT of the todo and its callback
EditTodo(r) ==
    /\ Admit(r)
    /\ \E id \in TodoIds, text \in EditTexts, priority \in Priorities,
          fail \in BOOLEAN :
         /\ Fault(fail)
         /\ LET q == [IdleReq EXCEPT !.kind = "editTodo", !.todoId = id,
                                     !.text = text, !.priority = priority]
            IN  IF fail
                THEN /\ req' = [req EXCEPT ![r] = IdleReq]
                     /\ resp' = [resp EXCEPT ![r] = "500"]
                ELSE IF id \notin DOMAIN todos
                THEN /\ req' = [req EXCEPT ![r] = IdleReq]
                     /\ resp' = [resp EXCEPT ![r] = "404"]
                ELSE IF IsNullRef(todos[id].note_id)
                THEN /\ req' = [req EXCEPT ![r] = IdleReq]
                     /\ resp' = [resp EXCEPT ![r] = "400"]
                ELSE /\ req' = [req EXCEPT ![r] =
                                  [q EXCEPT !.pc = "getNote",
                                            !.noteId = todos[id].note_id]]
                     /\ resp' = [resp EXCEPT ![r] = "none"]
    /\ rec' = [rec EXCEPT ![r] = NoRec]
    /\ UNCHANGED <<notes, lastID, todos>>
    /\ UNCHANGED <<tagVars, textVars, migVars>>

\* PUT /api/todos/:id/edit, the SELECT of the source note and its callback,
\* which rewrites the content and issues the UPDATE
EditTodoGetNote(r) ==
    /\ req[r].kind = "editTodo" /\ req[r].pc = "getNote"
    /\ \E fail \in BOOLEAN :
         /\ Fault(fail)
         /\ IF fail
            THEN /\ req' = [req EXCEPT ![r] = IdleReq]
                 /\ resp' = [resp EXCEPT ![r] = "500"]
            ELSE IF req[r].noteId \notin DOMAIN notes
            THEN /\ req' = [req EXCEPT ![r] = IdleReq]
                 /\ resp' = [resp EXCEPT ![r] = "404"]
            ELSE LET note == notes[req[r].noteId]
                 IN  /\ req' = [req EXCEPT
                          ![r].pc = "updateNote",
                          ![r].title = note.title,
                          ![r].content = updateTodoInNoteContent(
                               note.content, req[r].todoId, req[r].text,
                               req[r].priority)]
                     /\ UNCHANGED resp
    /\ UNCHANGED <<notes, lastID, todos, rec, nreq, overlap, env>>
    /\ UNCHANGED <<tagVars, textVars, migVars>>

\* PUT /api/todos/:id/edit, the UPDATE of the note's content and its callback
EditTodoUpdateNote(r) ==
    /\ req[r].kind = "editTodo" /\ req[r].pc = "updateNote"
    /\ \E fail \in BOOLEAN :
         /\ Fault(fail)
         /\ IF fail
            THEN /\ resp' = [resp EXCEPT ![r] = "500"]
                 /\ UNCHANGED <<notes, rec>>
            ELSE /\ notes' = IF req[r].noteId \in DOMAIN notes
                             THEN [notes EXCEPT ![req[r].noteId].content =
                                     req[r].content]
                             ELSE notes
                 /\ rec' = [rec EXCEPT ![r] =
                              StartRec(req[r].noteId, req[r].content, req[r].title,
                                       [id |-> req[r].todoId, text |-> req[r].text,
                                        priority |-> req[r].priority])]
                 /\ resp' = [resp EXCEPT ![r] = "200"]
    /\ req' = [req EXCEPT ![r] = IdleReq]
    /\ UNCHANGED <<lastID, todos, nreq, overlap, env>>
    /\ UNCHANGED <<tagVars, textVars, migVars>>

(***************************************************************************)
(* Specifications.                                                         *)
(***************************************************************************)
Next ==
    \E r \in Reqs :
       \/ PostNote(r)
       \/ PutNote(r)
       \/ PutNoteGet(r)
       \/ DeleteNote(r)
       \/ PutTodo(r)
       \/ PutTodoGet(r)
       \/ EditTodo(r)
       \/ EditTodoGetNote(r)
       \/ EditTodoUpdateNote(r)
       \/ RecSelect(r)
       \/ RecDelete(r)
       \/ RecInsert(r)

\* requests do not overlap; store operations may fail
InitSeq == Init /\ env = "sequential"
SpecSeq == InitSeq /\ [][Next]_vars

\* requests may overlap; the store is reliable
InitOverlap == Init /\ env = "overlapping"
Spec == InitOverlap /\ [][Next]_vars

(***************************************************************************)
(* Tag inheritance.  The revision of server.js that maintains the tables   *)
(* of migration 4 is not among the sources; this part follows the          *)
(* specification of the Reconciler (step 5) and of the Tag Synchronizer.   *)
(***************************************************************************)
\* tag lists a client sends with a note
TagSets == {{}, {"w"}, {"v"}}

\* the tag names associated with an owner
TagsOf(assoc, ownerId) == IF ownerId \in DOMAIN assoc THEN assoc[ownerId] ELSE {}

\* setTags(ownerKind, ownerId, names): delete all associations of the owner,
\* then create one per unique name
SetTags(assoc, ownerId, names) ==
    IF names = {}
    THEN [k \in DOMAIN assoc \ {ownerId} |-> assoc[k]]
    ELSE (ownerId :> names) @@ assoc

\* inheritFromNote(todoId, noteId): a no-op for a null note reference
inheritFromNote(todoId, noteId) ==
    IF IsNullRef(noteId) THEN todo_tags
    ELSE SetTags(todo_tags, todoId, TagsOf(note_tags, noteId))

\* a note create or update with tags, by a client that waits for the
\* previous write to finish: the note row and its tag set are written and
\* the reconcile replaces the note's todos (an INSERT that meets a stored
\* identifier fails and leaves the stored row); the tag inheritance of the
\* written todos follows
TagsWriteNote ==
    /\ inherit.pending = {}
    /\ nreq < MaxRequests
    /\ \E id \in DOMAIN notes \cup {n \in {lastID + 1} : n <= MaxNotes},
          title \in Titles, content \in Contents, names \in TagSets :
         \E m \in ExistingTodosMaps(RowsOf(todos, id)) :
            LET newTodos == extractTodos(id, content, title)
                written  == {CarryForward(newTodos[j], m) : j \in 1..Len(newTodos)}
            IN  /\ notes' = (id :> [title |-> title, content |-> content]) @@ notes
                /\ lastID' = IF id \in DOMAIN notes THEN lastID ELSE id
                /\ note_tags' = SetTags(note_tags, id, names)
                /\ todos' = DeleteTodosOf(todos, id) @@
                               [k \in {t.id : t \in written} |->
                                  TodoRow(CHOOSE t \in written : t.id = k)]
                /\ inherit' = [noteId |-> id, pending |-> {t.id : t \in written}]
    /\ nreq' = nreq + 1
    /\ UNCHANGED <<todo_tags, req, rec, resp, nfault, overlap, env, textVars,
                   migVars>>

\* step 5 of the reconcile, for one written todo
TagsInherit ==
    /\ \E k \in inherit.pending :
         /\ todo_tags' = inheritFromNote(k, inherit.noteId)
         /\ inherit' = [inherit EXCEPT !.pending = @ \ {k}]
    /\ UNCHANGED <<notes, lastID, todos, note_tags, req, rec, resp, nreq, nfault,
                   overlap, env, textVars, migVars>>

\* the database as a quiescent run left it: the todos of note 1 carry the
\* note's tags, the standalone todo has none
InitTags ==
    /\ \E c \in Contents, names \in TagSets :
         /\ notes = (1 :> [title |-> "t1", content |-> c])
         /\ todos = LET ex == extractTodos(1, c, "t1")
                    IN  (StandaloneId :> StandaloneRow) @@
                        [k \in {ex[j].id : j \in 1..Len(ex)} |->
                           TodoRow(CHOOSE t \in {ex[j] : j \in 1..Len(ex)} : t.id = k)]
         /\ note_tags = SetTags(<<>>, 1, names)
         /\ todo_tags = LET ex == extractTodos(1, c, "t1")
                        IN  IF names = {} THEN <<>>
                            ELSE [k \in {ex[j].id : j \in 1..Len(ex)} |-> names]
    /\ lastID = 1
    /\ req = [r \in Reqs |-> IdleReq]
    /\ rec = [r \in Reqs |-> NoRec]
    /\ resp = [r \in Reqs |-> "none"]
    /\ nreq = 0
    /\ nfault = 0
    /\ overlap = FALSE
    /\ env = "tags"
    /\ inherit = NoInherit
    /\ doc = <<>>
    /\ result = NoResult
    /\ migrations = MigVersions
    /\ mm = NoMig
    /\ tags = <<>>
    /\ norm = NoNorm
    /\ standalone_todos = NoTable

NextTags == TagsWriteNote \/ TagsInherit
SpecTags == InitTags /\ [][NextTags]_vars

(***************************************************************************)
(* The parsing functions applied to Markdown bodies, outside any request.  *)
(***************************************************************************)
MaxLines == 4        \* lines of a body

LnTodoLower  == <<"#", "t", "o", "d", "o">>
LnProse      == <<"x">>
LnBlank      == <<>>
LnIndented   == <<" ", "x">>
LnTokenOnly  == <<"-", " ", "[", "H", "]">>
LnMarkerOnly == <<"-">>
LnIndentedB  == <<"\t", "*", " ", "b">>

\* the lines a body is made of
TextLines ==
    { LnTodo, LnTodoLower, LnNotes, LnProse, LnBlank, LnIndented,
      LnA, LnAHigh, LnTokenOnly, LnMarkerOnly, LnIndentedB }

\* identifiers handed to the rewriter: every line index of note 1 up to one
\* past the longest body, and the identifier of the standalone todo
RewriteIds == {MakeTodoId(<<"1">>, i) : i \in 0..(MaxLines + 1)} \cup {StandaloneId}

\* new texts handed to the rewriter: a word, and two words with a line
\* break between them
RewriteTexts == { <<"c">>, <<"c", NL, "d">>, <<"!", "c">> }

\* a TODO section with one item, closed by a heading: a body that starts
\* with it may have one line more, so that a second section has an item
ClosedSection == <<LnTodo, LnA, LnNotes>>

BeginsWith(p, s) == Len(p) <= Len(s) /\ SubSeq(s, 1, Len(p)) = p

\* one more line is written to the body
TypeLine ==
    /\ env \in {"text", "extract"}
    /\ result = NoResult
    /\ \/ Len(doc) < MaxLines
       \/ Len(doc) = MaxLines /\ BeginsWith(ClosedSection, doc)
    /\ \E l \in TextLines : doc' = Append(doc, l)
    /\ UNCHANGED result
    /\ UNCHANGED <<notes, lastID, todos, req, rec, resp, nreq, nfault, overlap,
                   env, tagVars, migVars>>

\* extractTodos(1, content, "t1") on the body
Extract ==
    /\ result = NoResult
    /\ result' = [op |-> "extract",
                  out |-> extractTodos(1, JoinLines(doc), "t1")]
    /\ UNCHANGED <<notes, lastID, todos, req, rec, resp, nreq, nfault, overlap,
                   env, tagVars, doc, migVars>>

\* updateTodoInNoteContent(content, todoId, newText, newPriority) on the body
Rewrite ==
    /\ env = "text"
    /\ result = NoResult
    /\ \E todoId \in RewriteIds, newText \in RewriteTexts,
          newPriority \in Priorities :
         result' = [op |-> "rewrite", todoId |-> todoId, newText |-> newText,
                    newPriority |-> newPriority,
                    out |-> updateTodoInNoteContent(JoinLines(doc), todoId,
                                                    newText, newPriority)]
    /\ UNCHANGED <<notes, lastID, todos, req, rec, resp, nreq, nfault, overlap,
                   env, tagVars, doc, migVars>>

\* no store, no request
InitNoStore ==
    /\ notes = <<>>
    /\ todos = <<>>
    /\ lastID = 0
    /\ req = [r \in Reqs |-> IdleReq]
    /\ rec = [r \in Reqs |-> NoRec]
    /\ resp = [r \in Reqs |-> "none"]
    /\ nreq = 0
    /\ nfault = 0
    /\ overlap = FALSE
    /\ note_tags = <<>>
    /\ todo_tags = <<>>
    /\ inherit = NoInherit
    /\ migrations = {}
    /\ mm = NoMig
    /\ tags = <<>>
    /\ norm = NoNorm
    /\ standalone_todos = NoTable

InitText ==
    /\ InitNoStore
    /\ env = "text"
    /\ doc = <<>>
    /\ result = NoResult

NextText == TypeLine \/ Extract \/ Rewrite
SpecText == InitText /\ [][NextText]_vars

\* bodies that are only read by the extractor
InitExtract ==
    /\ InitNoStore
    /\ env = "extract"
    /\ doc = <<>>
    /\ result = NoResult

NextExtract == TypeLine \/ Extract
SpecExtract == InitExtract /\ [][NextExtract]_vars

\* item texts for the priority lexer: a token as written in the README or
\* in lower case (rank: its place in the order [H], [HIGH], !!!, [M], [MED],
\* [MEDIUM], !!, [L], [LOW], !), the whitespace after it, and the text that
\* follows (a word, or a second token and a word); and texts that start
\* with no token
LexTokens ==
    { [tok |-> <<"[", "H", "]">>,                          priority |-> "high", rank |-> 1],
      [tok |-> <<"[", "h", "]">>,                          priority |-> "high", rank |-> 1],
      [tok |-> <<"[", "H", "I", "G", "H", "]">>,           priority |-> "high", rank |-> 2],
      [tok |-> <<"[", "h", "i", "g", "h", "]">>,           priority |-> "high", rank |-> 2],
      [tok |-> <<"!", "!", "!">>,                          priority |-> "high", rank |-> 3],
      [tok |-> <<"[", "M", "]">>,                          priority |-> "medium", rank |-> 4],
      [tok |-> <<"[", "m", "]">>,                          priority |-> "medium", rank |-> 4],
      [tok |-> <<"[", "M", "E", "D", "]">>,                priority |-> "medium", rank |-> 5],
      [tok |-> <<"[", "m", "e", "d", "]">>,                priority |-> "medium", rank |-> 5],
      [tok |-> <<"[", "M", "E", "D", "I", "U", "M", "]">>, priority |-> "medium", rank |-> 6],
      [tok |-> <<"[", "m", "e", "d", "i", "u", "m", "]">>, priority |-> "medium", rank |-> 6],
      [tok |-> <<"!", "!">>,                               priority |-> "medium", rank |-> 7],
      [tok |-> <<"[", "L", "]">>,                          priority |-> "low", rank |-> 8],
      [tok |-> <<"[", "l", "]">>,                          priority |-> "low", rank |-> 8],
      [tok |-> <<"[", "L", "O", "W", "]">>,                priority |-> "low", rank |-> 9],
      [tok |-> <<"[", "l", "o", "w", "]">>,                priority |-> "low", rank |-> 9],
      [tok |-> <<"!">>,                                    priority |-> "low", rank |-> 10] }
LexGaps  == { <<>>, <<" ">>, <<" ", "\t">> }
LexRests == { <<"a">>, <<"[", "L", "]", " ", "a">>, <<"!", " ", "a">> }
LexPlain == { <<"a">>, <<"[", "x", "]", " ", "a">>, <<"H", "]", " ", "a">>,
              <<"(", "!", ")", " ", "a">>, <<"a", " ", "[", "H", "]">> }

\* the list line of an item text
ItemOf(text) == <<"-", " ">> \o text

\* a body of one TODO heading and one item
InitLex ==
    /\ InitNoStore
    /\ env = "lex"
    /\ doc \in { <<LnTodo, ItemOf(t.tok \o g \o rest)>> :
                    t \in LexTokens, g \in LexGaps, rest \in LexRests }
               \cup { <<LnTodo, ItemOf(text)>> : text \in LexPlain }
    /\ result = NoResult

NextLex == Extract
SpecLex == InitLex /\ [][NextLex]_vars

(***************************************************************************)
(* MigrationManager: runMigrations at each startup of the server.          *)
(***************************************************************************)
MaxStartups == 3     \* startups of the server on one database

\* a store operation of the manager succeeds or reports an error
MigFault(fail) ==
    /\ fail => nfault < MaxFaults
    /\ nfault' = IF fail THEN nfault + 1 ELSE nfault

\* SELECT MAX(version) ... resolve(row && row.version ? row.version : 0)
MaxVersion(ledger) ==
    IF ledger = {} THEN 0 ELSE CHOOSE v \in ledger : \A u \in ledger : u <= v

\* this.migrations.filter(m => m.version > currentVersion), in list order
PendingAfter(currentVersion) ==
    LET n == Cardinality({v \in MigVersions : v > currentVersion})
    IN  [k \in 1..n |-> currentVersion + k]

\* a row of standalone_todos as migration 3 copies it into todos:
\* SELECT id, NULL, NULL, text, completed, ... FROM standalone_todos
CopyOfStandalone(row) ==
    [ note_id            |-> 0,
      note_title         |-> NULL,
      text               |-> row.text,
      completed          |-> row.completed,
      completed_date     |-> row.completed_date,
      completion_comment |-> row.completion_comment,
      priority           |-> row.priority ]

\* the statements of the up script of a migration, applied to the tables:
\* version 2 adds the priority column (a duplicate column is tolerated) and
\* runs CREATE TABLE IF NOT EXISTS standalone_todos; version 3 copies the
\* rows of standalone_todos into todos (the statement fails without the
\* table, and on an id that todos holds already) and drops the table
UpScript(version) ==
    IF version = 2
    THEN [ok |-> TRUE, todos |-> todos,
          standalone_todos |-> [standalone_todos EXCEPT !.exists = TRUE]]
    ELSE IF version = 3
    THEN LET rows == standalone_todos.rows
         IN  IF \/ ~standalone_todos.exists
                \/ DOMAIN rows \cap DOMAIN todos # {}
             THEN [ok |-> FALSE, todos |-> todos,
                   standalone_todos |-> standalone_todos]
             ELSE [ok |-> TRUE,
                   todos |-> [id \in DOMAIN todos \cup DOMAIN rows |->
                                IF id \in DOMAIN todos THEN todos[id]
                                ELSE CopyOfStandalone(rows[id])],
                   standalone_todos |-> NoTable]
    ELSE [ok |-> TRUE, todos |-> todos, standalone_todos |-> standalone_todos]

\* the server starts: initializeDatabase calls runMigrations
MigStart ==
    /\ env = "migrate"
    /\ mm.pc \in {"off", "done", "failed"}
    /\ mm.startups < MaxStartups
    /\ mm' = [mm EXCEPT !.pc = "get", !.startups = @ + 1, !.pending = <<>>,
                         !.currentVersion = 0, !.thisRun = <<>>, !.failedAt = 0]
    /\ UNCHANGED <<notes, lastID, todos, req, rec, resp, nreq, nfault, overlap,
                   env, tagVars, textVars, migrations,
                   tags, norm, standalone_todos>>

\* getCurrentVersion and the filter of the pending migrations
MigGetCurrentVersion ==
    /\ mm.pc = "get"
    /\ \E fail \in BOOLEAN :
         /\ MigFault(fail)
         /\ IF fail
            THEN mm' = [mm EXCEPT !.pc = "failed"]
            ELSE LET currentVersion    == MaxVersion(migrations)
                     pendingMigrations == PendingAfter(currentVersion)
                 IN  mm' = [mm EXCEPT
                              !.currentVersion = currentVersion,
                              !.pending = pendingMigrations,
                              !.pc = IF Len(pendingMigrations) = 0
                                     THEN "done" ELSE "up"]
    /\ UNCHANGED <<notes, lastID, todos, req, rec, resp, nreq, overlap, env,
                   tagVars, textVars, migrations,
                   tags, norm, standalone_todos>>

\* a loop that logs the failure of an up script and goes on to the next
\* migration
MigUpSwallowsError ==
    /\ mm.pc = "up"
    /\ \E fail \in BOOLEAN :
         /\ MigFault(fail)
         /\ LET migration == Head(mm.pending)
                up        == UpScript(migration)
            IN  IF fail \/ ~up.ok
                THEN /\ mm' = [mm EXCEPT !.failedAt = migration,
                                         !.pending = Tail(@),
                                         !.pc = IF Len(mm.pending) = 1
                                                THEN "failed" ELSE "up"]
                     /\ UNCHANGED <<todos, standalone_todos>>
                ELSE /\ mm' = [mm EXCEPT !.pc = "record",
                                         !.ran[migration] = @ + 1,
                                         !.thisRun = Append(@, migration)]
                     /\ todos' = up.todos
                     /\ standalone_todos' = up.standalone_todos
    /\ UNCHANGED <<notes, lastID, req, rec, resp, nreq, overlap, env,
                   tagVars, textVars, migrations, tags, norm>>

\* await migration.up() for the first pending migration
MigUp ==
    /\ mm.pc = "up"
    /\ \E fail \in BOOLEAN :
         /\ MigFault(fail)
         /\ LET migration == Head(mm.pending)
                up        == UpScript(migration)
            IN  IF fail \/ ~up.ok
                THEN /\ mm' = [mm EXCEPT !.pc = "failed",
                                         !.failedAt = migration]
                     /\ UNCHANGED <<todos, standalone_todos>>
                ELSE /\ mm' = [mm EXCEPT !.pc = "record",
                                         !.ran[migration] = @ + 1,
                                         !.thisRun = Append(@, migration)]
                     /\ todos' = up.todos
                     /\ standalone_todos' = up.standalone_todos
    /\ UNCHANGED <<notes, lastID, req, rec, resp, nreq, overlap, env,
                   tagVars, textVars, migrations, tags, norm>>

\* INSERT INTO migrations (version, name): version is the PRIMARY KEY
MigRecord ==
    /\ mm.pc = "record"
    /\ \E fail \in BOOLEAN :
         /\ MigFault(fail)
         /\ LET migration == Head(mm.pending)
            IN  IF fail \/ migration \in migrations
                THEN /\ mm' = [mm EXCEPT !.pc = "failed", !.failedAt = migration]
                     /\ UNCHANGED migrations
                ELSE /\ migrations' = migrations \cup {migration}
                     /\ mm' = [mm EXCEPT !.pending = Tail(@),
                                         !.pc = IF Len(mm.pending) = 1
                                                THEN "done" ELSE "up"]
    /\ UNCHANGED <<notes, lastID, todos, req, rec, resp, nreq, overlap, env,
                   tagVars, textVars, tags, norm,
                   standalone_todos>>

\* a database of any schema version, before the server starts
InitMig ==
    /\ notes = <<>>
    /\ lastID = 0
    /\ req = [r \in Reqs |-> IdleReq]
    /\ rec = [r \in Reqs |-> NoRec]
    /\ resp = [r \in Reqs |-> "none"]
    /\ nreq = 0
    /\ nfault = 0
    /\ overlap = FALSE
    /\ env = "migrate"
    /\ note_tags = <<>>
    /\ todo_tags = <<>>
    /\ inherit = NoInherit
    /\ doc = <<>>
    /\ result = NoResult
    /\ mm = NoMig
    /\ tags = <<>>
    /\ norm = NoNorm
    /\ \E v \in 0..4, rows \in {<<>>, [id \in {StandaloneId} |-> StandaloneTodo]} :
         /\ migrations = 1..v
         /\ standalone_todos = IF v = 2 THEN [exists |-> TRUE, rows |-> rows]
                                ELSE NoTable
         /\ todos = IF v >= 3
                    THEN [id \in DOMAIN rows |-> CopyOfStandalone(rows[id])]
                    ELSE <<>>

\* the id and the row of POST /api/standalone-todos:
\* `standalone-${Date.now()}-${Math.random()...}`, completed false
PostedId == <<"s", "1">>
PostedTodo ==
    [ text               |-> <<"p">>,
      priority           |-> "medium",
      completed          |-> FALSE,
      completed_date     |-> NULL,
      completion_comment |-> NULL ]

NoListing == [status |-> "none", ids |-> {}]

\* POST /api/standalone-todos: INSERT INTO standalone_todos, 500 on error
PostStandaloneTodo ==
    /\ env = "migrate"
    /\ mm.pc \in {"done", "failed"}
    /\ result = NoResult
    /\ \E fail \in BOOLEAN :
         /\ MigFault(fail)
         /\ IF fail \/ ~standalone_todos.exists
            THEN /\ result' = [op |-> "standalone", post |-> "500",
                               list |-> NoListing]
                 /\ UNCHANGED standalone_todos
            ELSE /\ standalone_todos' =
                      [standalone_todos EXCEPT !.rows =
                         [id \in DOMAIN @ \cup {PostedId} |->
                            IF id = PostedId THEN PostedTodo ELSE @[id]]]
                 /\ result' = [op |-> "standalone", post |-> "200",
                               list |-> NoListing]
    /\ UNCHANGED <<notes, lastID, todos, req, rec, resp, nreq, overlap, env,
                   tagVars, doc, migrations, mm, tags, norm>>

\* GET /api/standalone-todos: SELECT * FROM standalone_todos, 500 on error
GetStandaloneTodos ==
    /\ env = "migrate"
    /\ mm.pc \in {"done", "failed"}
    /\ result # NoResult
    /\ result.list = NoListing
    /\ \E fail \in BOOLEAN :
         /\ MigFault(fail)
         /\ result' = [result EXCEPT !.list =
                         IF fail \/ ~standalone_todos.exists
                         THEN [status |-> "500", ids |-> {}]
                         ELSE [status |-> "200",
                               ids |-> DOMAIN standalone_todos.rows]]
    /\ UNCHANGED <<notes, lastID, todos, req, rec, resp, nreq, overlap, env,
                   tagVars, doc, migVars>>

NextMig ==
    \/ MigStart
    \/ MigGetCurrentVersion
    \/ MigUp
    \/ MigRecord
    \/ PostStandaloneTodo
    \/ GetStandaloneTodos
SpecMig == InitMig /\ [][NextMig]_vars

(***************************************************************************)
(* GET /api/notes with the search parameter.                               *)
(***************************************************************************)
Wrk     == <<"w", "o", "r", "k">>
WrkCap  == <<"W", "o", "r", "k">>
Wor     == <<"w", "o", "r">>
TagColon == <<"t", "a", "g", ":">>

SearchTitles   == {<<"x">>, Wrk}
SearchContents == {<<>>, <<"W", "O", "R">>}
SearchTagLists == {<<>>, <<Wrk>>, <<Wor>>, <<WrkCap, <<"x">>>>, <<Wrk, Wrk>>}
Searches ==
    { <<>>,
      TagColon \o Wor,
      TagColon \o Wrk,
      TagColon \o <<"W", "O", "R", "K">>,
      TagColon \o <<" ">> \o Wrk \o <<" ">>,
      TagColon \o <<"w", "_", "r", "k">>,
      TagColon \o <<",">>,
      Wor,
      <<"W", "O", "R", "K">>,
      <<"w", "_", "r">>,
      <<"t", "a", "g">> }

\* the comparison of LIKE without regard to the case of ASCII letters
LikeFold(c) ==
    CASE c = "W" -> "w" [] c = "O" -> "o" [] c = "R" -> "r" [] c = "K" -> "k"
      [] OTHER -> c

\* text LIKE pat: % matches any run of characters, _ any one character
RECURSIVE Like(_, _)
Like(text, pat) ==
    IF pat = <<>> THEN text = <<>>
    ELSE IF Head(pat) = "%"
         THEN \/ Like(text, Tail(pat))
              \/ text # <<>> /\ Like(Tail(text), pat)
    ELSE /\ text # <<>>
         /\ Head(pat) = "_" \/ LikeFold(Head(pat)) = LikeFold(Head(text))
         /\ Like(Tail(text), Tail(pat))

\* JSON.stringify of an array of names
RECURSIVE JSONItems(_)
JSONItems(l) ==
    IF l = <<>> THEN <<>>
    ELSE <<"\"">> \o Head(l) \o <<"\"">>
         \o (IF Len(l) > 1 THEN <<",">> ELSE <<>>) \o JSONItems(Tail(l))

JSONStringify(l) == <<"[">> \o JSONItems(l) \o <<"]">>

\* JSON.parse of a stored tags text
JSONParse(text) == CHOOSE l \in SearchTagLists : JSONStringify(l) = text

\* search.startsWith('tag:')
StartsWithTag(search) ==
    Len(search) >= 4 /\ SubSeq(search, 1, 4) = TagColon

\* a tag filter that looks for the tag search anywhere in the stored text
SearchWhereSubstring(row, search) ==
    IF search = <<>> THEN TRUE
    ELSE IF StartsWithTag(search)
         THEN LET tagSearch == Trim(SubSeq(search, 5, Len(search)))
              IN  Like(row.tags, <<"%">> \o tagSearch \o <<"%">>)
    ELSE LET searchParam == <<"%">> \o search \o <<"%">>
         IN  Like(row.title, searchParam) \/ Like(row.content, searchParam)

\* the WHERE clause of the query
SearchWhere(row, search) ==
    IF search = <<>> THEN TRUE
    ELSE IF StartsWithTag(search)
         THEN LET tagSearch == Trim(SubSeq(search, 5, Len(search)))
              IN  Like(row.tags, <<"%", "\"">> \o tagSearch \o <<"\"", "%">>)
    ELSE LET searchParam == <<"%">> \o search \o <<"%">>
         IN  Like(row.title, searchParam) \/ Like(row.content, searchParam)

\* ORDER BY date DESC
RECURSIVE OrderByDateDesc(_)
OrderByDateDesc(rows) ==
    IF rows = {} THEN <<>>
    ELSE LET first == CHOOSE r \in rows : \A q \in rows : q.date <= r.date
         IN  <<first>> \o OrderByDateDesc(rows \ {first})

\* app.get('/api/notes')
GetNotes ==
    /\ env = "search"
    /\ result = NoResult
    /\ \E search \in Searches :
         LET rows == OrderByDateDesc({notes[i] : i \in {j \in 1..Len(notes) :
                                                  SearchWhere(notes[j], search)}})
         IN  result' = [op |-> "getNotes", search |-> search,
                        notes |-> [i \in 1..Len(rows) |->
                                     [id |-> rows[i].id, title |-> rows[i].title,
                                      content |-> rows[i].content,
                                      tags |-> JSONParse(rows[i].tags),
                                      date |-> rows[i].date]]]
    /\ UNCHANGED <<notes, lastID, todos, req, rec, resp, nreq, nfault, overlap,
                   env, tagVars, doc, migVars>>

\* a store of one or two notes written by POST /api/notes
InitSearch ==
    /\ \E n \in 1..MaxNotes :
         /\ notes \in [1..n -> [id : 1..n, title : SearchTitles,
                                content : SearchContents,
                                tags : {JSONStringify(l) : l \in SearchTagLists},
                                date : 1..n]]
         /\ \A i \in 1..n : notes[i].id = i /\ notes[i].date = i
         /\ lastID = n
    /\ todos = <<>>
    /\ req = [r \in Reqs |-> IdleReq]
    /\ rec = [r \in Reqs |-> NoRec]
    /\ resp = [r \in Reqs |-> "none"]
    /\ nreq = 0
    /\ nfault = 0
    /\ overlap = FALSE
    /\ env = "search"
    /\ note_tags = <<>>
    /\ todo_tags = <<>>
    /\ inherit = NoInherit
    /\ doc = <<>>
    /\ result = NoResult
    /\ migrations = MigVersions
    /\ mm = NoMig
    /\ tags = <<>>
    /\ norm = NoNorm
    /\ standalone_todos = NoTable

NextSearch == GetNotes
SpecSearch == InitSearch /\ [][NextSearch]_vars

(***************************************************************************)
(* Migration 4, normalize_tags_into_separate_table: the up script.         *)
(***************************************************************************)
MaxTags == 2     \* names in the tag list of one note

InvalidJSON == <<"[">>

\* a tags column that holds NULL
NullTags == <<NULL>>

\* JSON.stringify([null]), which POST and PUT /api/notes store for a body
\* whose tags are [null], and the name JSON.parse gives back: null
NullNameJSON == <<"[", "n", "u", "l", "l", "]">>
NullName == <<NULL>>

\* what the tags column of a note may hold before the migration
StoredTags ==
    {JSONStringify(l) : l \in SearchTagLists}
       \cup {NullTags, <<>>, InvalidJSON, NullNameJSON}

\* JSON.parse(row.tags || '[]') throws on a text that is no JSON
IsJSON(text) ==
    \/ \E l \in SearchTagLists : JSONStringify(l) = text
    \/ text = NullNameJSON

\* JSON.parse(row.tags || '[]') of a text that is JSON
NormParse(text) ==
    IF text = NullNameJSON THEN <<NullName>> ELSE JSONParse(text)

\* the (note, position in the tag list) pairs of tags.forEach
ChainIds == (1..MaxNotes) \X (1..MaxTags)

NormFault(fail) ==
    /\ fail => nfault < MaxFaults
    /\ nfault' = IF fail THEN nfault + 1 ELSE nfault

\* reject(err): the promise of the up script settles once
Reject(n) == [n EXCEPT !.pc = IF @ = "pending" THEN "rejected" ELSE @]

\* SELECT id, tags FROM notes WHERE tags IS NOT NULL AND tags != "", and
\* the synchronous part of rows.forEach
NormSelectNotes ==
    /\ env = "normalize"
    /\ norm.pc = "off"
    /\ \E fail \in BOOLEAN :
         /\ NormFault(fail)
         /\ IF fail
            THEN norm' = [pc |-> "rejected", total |-> 0, processed |-> 0,
                          tagProcessed |-> <<>>, totalTags |-> <<>>,
                          chain |-> <<>>]
            ELSE LET rows == {i \in 1..Len(notes) :
                                notes[i].tags # NullTags /\ notes[i].tags # <<>>}
                     listOf == [i \in rows |->
                                  IF IsJSON(notes[i].tags)
                                  THEN NormParse(notes[i].tags) ELSE <<>>]
                     total == Cardinality(rows)
                     processed ==
                        Cardinality({i \in rows : Len(listOf[i]) = 0})
                 IN  norm' = [pc |-> IF processed = total
                                     THEN "resolved" ELSE "pending",
                              total |-> total,
                              processed |-> processed,
                              tagProcessed |-> [i \in rows |-> 0],
                              totalTags |-> [i \in rows |-> Len(listOf[i])],
                              chain |-> [c \in {d \in ChainIds :
                                                  /\ d[1] \in rows
                                                  /\ d[2] <= Len(listOf[d[1]])}
                                           |-> [pc |-> "insert",
                                                tagName |-> listOf[c[1]][c[2]],
                                                tag |-> NULL]]]
    /\ UNCHANGED <<notes, lastID, todos, req, rec, resp, nreq, overlap, env,
                   tagVars, textVars, migrations, mm, tags,
                   standalone_todos>>

\* an INSERT that adds a row whether or not the name is present
NormInsertTagAlways(c) ==
    /\ norm.pc # "off"
    /\ c \in DOMAIN norm.chain
    /\ norm.chain[c].pc = "insert"
    /\ \E fail \in BOOLEAN :
         /\ NormFault(fail)
         /\ IF fail
            THEN /\ norm' = [Reject(norm) EXCEPT !.chain[c].pc = "done"]
                 /\ UNCHANGED tags
            ELSE /\ tags' = Append(tags, [id |-> Len(tags) + 1,
                                          name |-> norm.chain[c].tagName])
                 /\ norm' = [norm EXCEPT !.chain[c].pc = "select"]
    /\ UNCHANGED <<notes, lastID, todos, req, rec, resp, nreq, overlap, env,
                   tagVars, textVars, migrations, mm,
                   standalone_todos>>

\* INSERT OR IGNORE INTO tags (name, created_date): name is UNIQUE and NOT
\* NULL, and OR IGNORE skips the row that violates either
NormInsertTag(c) ==
    /\ norm.pc # "off"
    /\ c \in DOMAIN norm.chain
    /\ norm.chain[c].pc = "insert"
    /\ \E fail \in BOOLEAN :
         /\ NormFault(fail)
         /\ IF fail
            THEN /\ norm' = [Reject(norm) EXCEPT !.chain[c].pc = "done"]
                 /\ UNCHANGED tags
            ELSE /\ tags' =
                      IF \/ norm.chain[c].tagName = NullName
                         \/ \E k \in 1..Len(tags) :
                               tags[k].name = norm.chain[c].tagName
                      THEN tags
                      ELSE Append(tags, [id |-> Len(tags) + 1,
                                         name |-> norm.chain[c].tagName])
                 /\ norm' = [norm EXCEPT !.chain[c].pc = "select"]
    /\ UNCHANGED <<notes, lastID, todos, req, rec, resp, nreq, overlap, env,
                   tagVars, textVars, migrations, mm,
                   standalone_todos>>

\* SELECT id FROM tags WHERE name = ?: without a row the callback receives
\* tag undefined, and reading tag.id throws inside the callback, which
\* neither resolves nor rejects
NormSelectTag(c) ==
    /\ norm.pc # "off"
    /\ c \in DOMAIN norm.chain
    /\ norm.chain[c].pc = "select"
    /\ \E fail \in BOOLEAN :
         /\ NormFault(fail)
         /\ IF fail
            THEN norm' = [Reject(norm) EXCEPT !.chain[c].pc = "done"]
            ELSE IF \E k \in 1..Len(tags) :
                       tags[k].name = norm.chain[c].tagName
                 THEN LET k == CHOOSE k \in 1..Len(tags) :
                                  tags[k].name = norm.chain[c].tagName
                      IN  norm' = [norm EXCEPT !.chain[c].pc = "link",
                                               !.chain[c].tag = tags[k]]
                 ELSE norm' = [norm EXCEPT !.chain[c].pc = "thrown"]
    /\ UNCHANGED <<notes, lastID, todos, req, rec, resp, nreq, overlap, env,
                   tagVars, textVars, migrations, mm, tags,
                   standalone_todos>>

\* INSERT OR IGNORE INTO note_tags (note_id, tag_id), and the counters that
\* resolve the promise
NormLinkNote(c) ==
    /\ norm.pc # "off"
    /\ c \in DOMAIN norm.chain
    /\ norm.chain[c].pc = "link"
    /\ \E fail \in BOOLEAN :
         /\ NormFault(fail)
         /\ IF fail
            THEN /\ norm' = [Reject(norm) EXCEPT !.chain[c].pc = "done"]
                 /\ UNCHANGED note_tags
            ELSE LET row == c[1]
                     tagProcessed == norm.tagProcessed[row] + 1
                     rowDone == tagProcessed = norm.totalTags[row]
                     processed == IF rowDone THEN norm.processed + 1
                                  ELSE norm.processed
                 IN  /\ note_tags' = note_tags \cup
                           {[note_id |-> notes[row].id,
                             tag_id |-> norm.chain[c].tag.id]}
                     /\ norm' = [norm EXCEPT
                           !.chain[c].pc = "done",
                           !.tagProcessed[row] = tagProcessed,
                           !.processed = processed,
                           !.pc = IF rowDone /\ processed = norm.total
                                     /\ @ = "pending"
                                  THEN "resolved" ELSE @]
    /\ UNCHANGED <<notes, lastID, todos, req, rec, resp, nreq, overlap, env,
                   todo_tags, inherit, textVars, migrations, mm, tags,
                   standalone_todos>>

\* a store of one or two notes of schema version 3, the tag tables created
\* and empty
InitNorm ==
    /\ \E n \in 1..MaxNotes :
         /\ notes \in [1..n -> [id : 1..n, title : {<<"x">>}, content : {<<>>},
                                tags : StoredTags, date : 1..n]]
         /\ \A i \in 1..n : notes[i].id = i /\ notes[i].date = i
         /\ lastID = n
    /\ todos = <<>>
    /\ req = [r \in Reqs |-> IdleReq]
    /\ rec = [r \in Reqs |-> NoRec]
    /\ resp = [r \in Reqs |-> "none"]
    /\ nreq = 0
    /\ nfault = 0
    /\ overlap = FALSE
    /\ env = "normalize"
    /\ note_tags = {}
    /\ todo_tags = {}
    /\ inherit = NoInherit
    /\ doc = <<>>
    /\ result = NoResult
    /\ migrations = {1, 2, 3}
    /\ mm = NoMig
    /\ tags = <<>>
    /\ norm = NoNorm
    /\ standalone_todos = NoTable

NextNorm ==
    \/ NormSelectNotes
    \/ \E c \in ChainIds : NormInsertTag(c)
    \/ \E c \in ChainIds : NormSelectTag(c)
    \/ \E c \in ChainIds : NormLinkNote(c)

SpecNorm == InitNorm /\ [][NextNorm]_vars

\* sqlite3 runs every statement handed to it and calls its callback
SpecNormFair ==
    /\ SpecNorm
    /\ WF_vars(NormSelectNotes)
    /\ \A c \in ChainIds : /\ WF_vars(NormInsertTag(c))
                           /\ WF_vars(NormSelectTag(c))
                           /\ WF_vars(NormLinkNote(c))

(***************************************************************************)
(* Properties.                                                             *)
(***************************************************************************)
\* the candidate set extract(noteId, content, title) of a reconcile
Candidates(c) ==
    LET ex == extractTodos(c.noteId, c.content, c.noteTitle)
    IN  {ex[j] : j \in 1..Len(ex)}

IdText(rows) == {[id |-> x.id, text |-> x.row.text] : x \in rows}

\* this step ends the reconcile of slot r, and no store operation of it failed
RecCompletes(r) == RecActive(r) /\ rec'[r].pc = "done" /\ ~rec'[r].failed

\* rows of the note of reconcile c that are stored after the step
RowsAfter(c) == RowsOf(todos', c.noteId)

\* a stored row x keeps its completion data in every row of text x.row.text
KeepsCompletion(c, x) ==
    \A y \in RowsAfter(c) :
        y.row.text = x.row.text =>
            /\ y.row.completed
            /\ y.row.completed_date = x.row.completed_date
            /\ y.row.completion_comment = x.row.completion_comment

StillExtracted(c, x) == \E e \in Candidates(c) : e.text = x.row.text

\* C1 as stated: a reconcile that completes without store error and without
\* overlap keeps completed = true, the completion date and the comment of
\* every stored todo whose text the new content still yields.
C1_AnyStoredTodo ==
    [][\A r \in Reqs : RecCompletes(r) =>
         \A x \in rec[r].pre :
            (x.row.completed /\ StillExtracted(rec[r], x))
               => KeepsCompletion(rec[r], x)]_vars

\* C1 amended: the same, for a stored completed todo whose text no other
\* stored todo of the note has.
C1_UniqueText ==
    [][\A r \in Reqs : RecCompletes(r) =>
         \A x \in rec[r].pre :
            ( /\ x.row.completed
              /\ StillExtracted(rec[r], x)
              /\ \A y \in rec[r].pre : y.row.text = x.row.text => y = x )
               => KeepsCompletion(rec[r], x)]_vars

\* a completed todo "a" stored at line 1 was carried to line 3 by a write
\* that moved it under another heading and another item
C1_Witness ==
    /\ rec[1].pc = "done" /\ ~rec[1].failed
    /\ 1 \in DOMAIN notes
    /\ notes[1].content = JoinLines(<<LnNotes, LnTodo, LnB, LnA>>)
    /\ <<"1", "-", "3">> \in DOMAIN todos
    /\ todos[<<"1", "-", "3">>].completed
    /\ todos[<<"1", "-", "3">>].completed_date = "d1"
    /\ todos[<<"1", "-", "3">>].completion_comment = "c1"
    /\ <<"1", "-", "1">> \notin DOMAIN todos

\* C2: after a reconcile completes, every stored todo of the note has the
\* priority parsed from its source line in the written content.
C2_PriorityFromContent ==
    [][\A r \in Reqs : RecCompletes(r) =>
         \A y \in RowsAfter(rec[r]) :
            \E e \in Candidates(rec[r]) :
               e.id = y.id /\ e.priority = y.row.priority]_vars

\* C3: after a reconcile that completes without store error and without
\* overlap, the stored todos of the note are exactly the candidates: same
\* identifiers and texts, nothing left over, nothing missing.
C3_FullSetReplacement ==
    [][\A r \in Reqs : RecCompletes(r) =>
         IdText(RowsAfter(rec[r])) =
            {[id |-> e.id, text |-> e.text] : e \in Candidates(rec[r])}]_vars

\* the single row 1-1 of "- [H] a" (its priority survives) was replaced by
\* the rows 1-2 and 1-3 of the content written over it
C3_Witness ==
    /\ rec[1].pc = "done" /\ ~rec[1].failed
    /\ 1 \in DOMAIN notes
    /\ notes[1].content = JoinLines(<<LnNotes, LnTodo, LnB, LnA>>)
    /\ {k \in DOMAIN todos : todos[k].note_id = 1}
          = {<<"1", "-", "2">>, <<"1", "-", "3">>}
    /\ todos[<<"1", "-", "3">>].priority = "high"

\* C4: when a todo edit and the reconcile it started have finished, the
\* stored todo with the edited identifier has the requested text and the
\* requested priority.
C4_EditReachesStoredTodo ==
    [][\A r \in Reqs : (RecCompletes(r) /\ rec[r].edit # NoEdit) =>
         /\ rec[r].edit.id \in DOMAIN todos'
         /\ todos'[rec[r].edit.id].text = rec[r].edit.text
         /\ todos'[rec[r].edit.id].priority = rec[r].edit.priority]_vars

\* C5: in every quiescent state each stored note-linked todo n-i is the
\* todo extraction yields for line i of the stored content of note n.
C5_TodoMatchesSourceLine ==
    Quiescent =>
      \A k \in DOMAIN todos :
         ~IsNullRef(todos[k].note_id) =>
            /\ todos[k].note_id \in DOMAIN notes
            /\ LET n == todos[k].note_id
                   ex == extractTodos(n, notes[n].content, notes[n].title)
               IN  \E j \in 1..Len(ex) : ex[j].id = k /\ ex[j].text = todos[k].text

\* C6: a step that deletes a note and answers with success leaves no stored
\* todo that references the note.
C6_DeleteCascades ==
    [][\A r \in Reqs : (DeleteNote(r) /\ resp'[r] = "200") =>
         \A n \in DOMAIN notes \ DOMAIN notes' : RowsOf(todos', n) = {}]_vars

\* C7: a success response to a note create, note update or todo edit is
\* out only when the reconcile of that write has finished.
C7_ResponseAfterReconcile ==
    \A r \in Reqs : resp[r] = "200" => ~RecActive(r)

\* a stored todo set differs from the extraction of the stored content
Mismatch(n) ==
    IdText(RowsOf(todos, n)) #
       {[id |-> e.id, text |-> e.text] :
           e \in Candidates([noteId |-> n, content |-> notes[n].content,
                             noteTitle |-> notes[n].title])}

\* C8: with a reliable store, a quiescent state in which the stored todo set
\* of a note is not the extraction of its stored content arises only from
\* overlapping requests (and C8_Witness: it does arise).
C8_MismatchOnlyByOverlap ==
    (Quiescent /\ \E n \in DOMAIN notes : Mismatch(n)) => overlap

\* two overlapping writes of note 1 (no note was created) have finished,
\* each reconcile ran to its end, and the rows stored for the note are not
\* those of its content
C8_Witness ==
    /\ Quiescent /\ overlap /\ nreq = 2 /\ lastID = 1
    /\ \A r \in Reqs : rec[r].pc = "done"
    /\ 1 \in DOMAIN notes /\ Mismatch(1)
    /\ RowsOf(todos, 1) # {}

\* C9: once a store operation of a reconcile has failed, no later store
\* operation of that reconcile runs, and the note row keeps the written
\* title and content (nothing in the program undoes an applied step).
C9_FailureAbortsReconcile ==
    \A r \in Reqs :
       /\ ~rec[r].afterFail
       /\ (RecActive(r) /\ rec[r].failed) =>
             /\ rec[r].noteId \in DOMAIN notes
             /\ notes[rec[r].noteId].content = rec[r].content
             /\ notes[rec[r].noteId].title = rec[r].noteTitle

\* C10: a request whose reconcile met a store failure is answered with a
\* failure, never with a success.
C10_FailureSurfaced ==
    \A r \in Reqs : (rec[r].failed /\ resp[r] # "none") => resp[r] = "500"

\* this step is a step of the request handler in slot r
Admitted(r) ==
    /\ nreq' = nreq + 1
    /\ IF env = "sequential" THEN r = 1 ELSE LowestFree(r)
HandlerStep(r) == Admitted(r) \/ (ReqActive(r) /\ req'[r] # req[r])

\* C11: a request answered with a not-found (404) or not-applicable (400)
\* status has changed neither the notes table nor the todos table, in the
\* answering step or before it, and has started no reconcile.
C11_NotFoundChangesNothing ==
    [][\A r \in Reqs :
         (HandlerStep(r) /\ resp'[r] \in {"404", "400"}) =>
            /\ ~req[r].wrote
            /\ notes' = notes
            /\ todos' = todos
            /\ rec'[r].pc = "none"
            /\ \A q \in Reqs \ {r} : rec'[q] = rec[q]]_vars

\* note 1 was deleted, its todos and the standalone todo are still stored,
\* and the request that followed (on the deleted note, on one of its todos
\* or on an identifier of no row) was answered with not-found
C11_Witness ==
    /\ nreq = 2 /\ Quiescent
    /\ resp[1] = "404"
    /\ notes = <<>>
    /\ RowsOf(todos, 1) # {}
    /\ StandaloneId \in DOMAIN todos

\* the note-sync edit of the standalone todo was answered not-applicable
\* while another request was in progress
C11_WitnessNotApplicable ==
    /\ resp[2] = "400" /\ ~Free(1)
    /\ StandaloneId \in DOMAIN todos

TodoHeadingLines == {LnTodo, LnTodoLower}
PlainItemText == (LnA :> <<"a">>) @@ (LnIndentedB :> <<"b">>)

Extracted == result.op = "extract"

\* C13: a body made of a TODO heading followed by N list items with
\* non-empty text and no priority token yields exactly N todos, the k-th
\* with the text of the k-th item, priority medium and completed = false.
C13_PlainItemsYieldMediumTodos ==
    ( /\ Extracted
      /\ Len(doc) >= 1
      /\ doc[1] \in TodoHeadingLines
      /\ \A k \in 2..Len(doc) : doc[k] \in DOMAIN PlainItemText )
    => /\ Len(result.out) = Len(doc) - 1
       /\ \A k \in 1..Len(result.out) :
             /\ result.out[k].text = PlainItemText[doc[k + 1]]
             /\ result.out[k].priority = "medium"
             /\ result.out[k].completed = FALSE

\* "#todo", "- a", "\t* b", "- a" was extracted into three todos
C13_Witness ==
    /\ Extracted
    /\ doc = <<LnTodoLower, LnA, LnIndentedB, LnA>>
    /\ Len(result.out) = 3
    /\ result.out[2].text = <<"b">>

\* lines that close a TODO section: a heading other than a TODO heading, an
\* unindented non-blank line that is not a list item
ClosingLines == {LnNotes, LnProse}

\* lines a section ignores: blank, indented and not a list item
IgnoredLines == {LnBlank, LnIndented}

\* list items with non-empty text
ItemLines == {LnA, LnAHigh, LnIndentedB}

\* the todo of the line doc[i] (line index i - 1) was emitted
Emitted(i) ==
    \E k \in 1..Len(result.out) : result.out[k].id = MakeTodoId(<<"1">>, i - 1)

\* C14: every emitted todo comes from a line that has a TODO heading before
\* it with no closing line in between: nothing is emitted before the first
\* TODO heading, nor between a closing line and the next TODO heading.
C14_SectionBoundary ==
    Extracted =>
       \A k \in 1..Len(result.out) :
          \E i \in 1..Len(doc) :
             /\ result.out[k].id = MakeTodoId(<<"1">>, i - 1)
             /\ \E h \in 1..(i - 1) :
                   /\ doc[h] \in TodoHeadingLines
                   /\ \A c \in (h + 1)..(i - 1) : doc[c] \notin ClosingLines

\* of "## TODO", "- a", "x", "- a" only the item of line 1 was emitted
C14_Witness ==
    /\ Extracted
    /\ doc = <<LnTodo, LnA, LnProse, LnA>>
    /\ Len(result.out) = 1
    /\ result.out[1].id = <<"1", "-", "1">>

\* C15: a list item with a TODO heading before it and only list items, blank
\* lines and indented non-list lines in between is emitted.
C15_BlankAndIndentedIgnored ==
    Extracted =>
       \A i \in 1..Len(doc) :
          ( /\ doc[i] \in ItemLines
            /\ \E h \in 1..(i - 1) :
                  /\ doc[h] \in TodoHeadingLines
                  /\ \A c \in (h + 1)..(i - 1) :
                        doc[c] \in ItemLines \cup IgnoredLines )
          => Emitted(i)

\* C16: every emitted todo has non-empty text.
C16_NoEmptyText ==
    Extracted => \A k \in 1..Len(result.out) : result.out[k].text # <<>>

\* p is a prefix of s
IsPrefix(p, s) == Len(p) <= Len(s) /\ SubSeq(s, 1, Len(p)) = p

\* t is the first token, in the order of the ranks, that the text starts with
FirstToken(t, text) ==
    /\ IsPrefix(t.tok, text)
    /\ \A u \in LexTokens : u.rank < t.rank => ~IsPrefix(u.tok, text)

\* C17: an item text made of a token, whitespace and a rest, where no token
\* earlier in the order is a prefix of the text, yields the token's level
\* and the rest as text (the token and the whitespace are removed once: a
\* second token in the rest stays); an item text that starts with no token
\* yields medium and the text unchanged.
C17_FirstTokenDecides ==
    Extracted =>
       /\ \A t \in LexTokens, g \in LexGaps, rest \in LexRests :
             ( /\ doc = <<LnTodo, ItemOf(t.tok \o g \o rest)>>
               /\ FirstToken(t, t.tok \o g \o rest) ) =>
                /\ Len(result.out) = 1
                /\ result.out[1].priority = t.priority
                /\ result.out[1].text = rest
       /\ \A text \in LexPlain :
             doc = <<LnTodo, ItemOf(text)>> =>
                /\ Len(result.out) = 1
                /\ result.out[1].priority = "medium"
                /\ result.out[1].text = text

\* "- !!!! a", which starts with each of "!!!", "!!" and "!", was lexed as
\* high with the text "! a"
C17_Witness ==
    /\ Extracted
    /\ doc = <<LnTodo, ItemOf(<<"!", "!", "!", "!", " ", "a">>)>>
    /\ Len(result.out) = 1
    /\ result.out[1].priority = "high"
    /\ result.out[1].text = <<"!", " ", "a">>

(***************************************************************************)
(* Properties of the rewriter.                                             *)
(***************************************************************************)
Rewritten == result.op = "rewrite"

\* the lines of the body handed to the rewriter and of the body it returned
LinesIn  == SplitLines(JoinLines(doc))
LinesOut == SplitLines(result.out)

\* lines that are list items, with or without text
ListLines == ItemLines \cup {LnTokenOnly, LnMarkerOnly}

\* the line doc[i] has a TODO heading before it and no closing line between
InSection(i) ==
    \E h \in 1..(i - 1) :
       /\ doc[h] \in TodoHeadingLines
       /\ \A c \in (h + 1)..(i - 1) : doc[c] \notin ClosingLines

\* C19: the rewriter returns a body with the same number of lines, in which
\* every line other than the one whose index the identifier names is
\* identical to the input.
C19_RewriterLocality ==
    Rewritten =>
       /\ Len(LinesOut) = Len(LinesIn)
       /\ \A i \in 1..Len(LinesIn) :
             result.todoId # MakeTodoId(<<"1">>, i - 1) =>
                (i <= Len(LinesOut) /\ LinesOut[i] = LinesIn[i])

\* C20: when the identifier names no list line inside a TODO section, the
\* rewriter returns the body unchanged.
C20_NoMatchNoChange ==
    ( /\ Rewritten
      /\ ~\E i \in 1..Len(doc) :
             /\ result.todoId = MakeTodoId(<<"1">>, i - 1)
             /\ doc[i] \in ListLines
             /\ InSection(i) )
    => result.out = JoinLines(doc)

\* the body "## TODO", "- a", "x", "- a" came back unchanged for the
\* identifier 1-3, whose list line lies after the prose that closed the
\* section
C20_Witness ==
    /\ Rewritten
    /\ doc = <<LnTodo, LnA, LnProse, LnA>>
    /\ result.todoId = <<"1", "-", "3">>
    /\ result.newPriority = "high"
    /\ result.out = JoinLines(doc)

\* the leading whitespace and the list marker of each list line, and the
\* canonical prefix of each priority
IndentOf == (LnA :> <<>>) @@ (LnAHigh :> <<>>) @@ (LnTokenOnly :> <<>>)
               @@ (LnMarkerOnly :> <<>>) @@ (LnIndentedB :> <<"\t">>)
MarkerOf == (LnA :> "-") @@ (LnAHigh :> "-") @@ (LnTokenOnly :> "-")
               @@ (LnMarkerOnly :> "-") @@ (LnIndentedB :> "*")
CanonicalPrefix ==
    ("high" :> <<"[", "H", "]", " ">>) @@ ("low" :> <<"[", "L", "]", " ">>)
       @@ ("medium" :> <<>>)

\* the line that replaces the list line l
Replacement(l) ==
    IndentOf[l] \o <<MarkerOf[l], " ">> \o CanonicalPrefix[result.newPriority]
       \o result.newText

\* C21: when the identifier names a list line inside a TODO section, the
\* returned body is the input with that line replaced by its leading
\* whitespace, its marker, one space, the canonical prefix of the new
\* priority and the new text.
C21_ReplacementLine ==
    Rewritten =>
       \A i \in 1..Len(doc) :
          ( /\ result.todoId = MakeTodoId(<<"1">>, i - 1)
            /\ doc[i] \in ListLines
            /\ InSection(i) )
          => result.out = JoinLines([doc EXCEPT ![i] = Replacement(doc[i])])

(***************************************************************************)
(* Properties of the migration manager.                                    *)
(***************************************************************************)
IsAscending(q) == \A i, j \in 1..Len(q) : i < j => q[i] < q[j]

\* C22: over all startups each up script completes at most once; within a
\* run the scripts run in ascending version order, each only when every
\* lower version is recorded; a run that reads the highest version from the
\* ledger runs no script.
C22_MigrationSequencing ==
    /\ \A v \in MigVersions : mm.ran[v] <= 1
    /\ IsAscending(mm.thisRun)
    /\ \A i \in 1..Len(mm.thisRun) :
          \A u \in MigVersions : u < mm.thisRun[i] => u \in migrations
    /\ mm.currentVersion = 4 => mm.thisRun = <<>>

\* C23: when the up script or the ledger record of version k has failed,
\* runMigrations has failed, no up script of a higher version has run in
\* this run, k is not recorded, and the lower versions that ran in this run
\* are recorded.
C23_MigrationAbort ==
    mm.failedAt # 0 =>
       /\ mm.pc = "failed"
       /\ mm.failedAt \notin migrations
       /\ \A i \in 1..Len(mm.thisRun) :
             /\ mm.thisRun[i] <= mm.failedAt
             /\ mm.thisRun[i] < mm.failedAt => mm.thisRun[i] \in migrations

\* on a fresh database the run recorded versions 1 and 2 and stopped at
\* version 3, whose up script ran and whose record failed
C23_Witness ==
    /\ mm.pc = "failed" /\ mm.failedAt = 3
    /\ mm.startups = 1
    /\ mm.thisRun = <<1, 2, 3>>
    /\ migrations = {1, 2}

(***************************************************************************)
(* Properties of the search of GET /api/notes.                             *)
(***************************************************************************)
Searched == result # NoResult /\ result.op = "getNotes"

Returned == {result.notes[i].id : i \in 1..Len(result.notes)}

CasePairs == {<<"w", "W">>, <<"o", "O">>, <<"r", "R">>, <<"k", "K">>}

SameLetter(a, b) == a = b \/ <<a, b>> \in CasePairs \/ <<b, a>> \in CasePairs

\* sub occurs in text, letters compared without regard to case
ContainsFold(text, sub) ==
    \E k \in 0..(Len(text) - Len(sub)) :
       \A j \in 1..Len(sub) : SameLetter(text[k + j], sub[j])

EqualsFold(a, b) == Len(a) = Len(b) /\ ContainsFold(a, b)

Letters == {"w", "o", "r", "k", "W", "O", "R", "K", "x", "t", "a", "g"}

IsPlain(s) == \A j \in 1..Len(s) : s[j] \in Letters

NoteIds == 1..Len(notes)

\* C24 as stated: a search 'tag:' followed by s returns exactly the notes
\* with a tag whose name contains s as a substring, case-insensitively; any
\* other search returns exactly the notes whose title or content contains it.
C24_TagSearchBySubstring ==
    Searched =>
       LET search == result.search
       IN  IF StartsWithTag(search)
           THEN Returned =
                  {i \in NoteIds :
                     \E k \in 1..Len(JSONParse(notes[i].tags)) :
                        ContainsFold(JSONParse(notes[i].tags)[k],
                                     SubSeq(search, 5, Len(search)))}
           ELSE Returned =
                  {i \in NoteIds : \/ ContainsFold(notes[i].title, search)
                                   \/ ContainsFold(notes[i].content, search)}

\* C24 amended: for s of letters after trimming, a search 'tag:' followed by
\* s returns exactly the notes with a tag whose whole name equals s,
\* case-insensitively; any other search of letters returns exactly the notes
\* whose title or content contains it, case-insensitively.
C24_TagSearchByName ==
    Searched =>
       LET search == result.search
           s      == Trim(SubSeq(search, 5, Len(search)))
       IN  IF StartsWithTag(search)
           THEN IsPlain(s) =>
                  Returned =
                    {i \in NoteIds :
                       \E k \in 1..Len(JSONParse(notes[i].tags)) :
                          EqualsFold(JSONParse(notes[i].tags)[k], s)}
           ELSE IsPlain(search) =>
                  Returned =
                    {i \in NoteIds : \/ ContainsFold(notes[i].title, search)
                                     \/ ContainsFold(notes[i].content, search)}

\* 'tag:WORK' returns the note tagged 'work' and not the note tagged 'wor'
C24_Witness ==
    /\ Searched
    /\ result.search = TagColon \o <<"W", "O", "R", "K">>
    /\ Len(notes) = 2
    /\ JSONParse(notes[1].tags) = <<Wrk>>
    /\ JSONParse(notes[2].tags) = <<Wor>>
    /\ Returned = {1}

(***************************************************************************)
(* Properties of migration 4.                                              *)
(***************************************************************************)
\* the tag list of note i, empty when the column holds no list
TagListOf(i) ==
    IF notes[i].tags # NullTags /\ IsJSON(notes[i].tags)
    THEN NormParse(notes[i].tags) ELSE <<>>

NamesOfNote(i) == {TagListOf(i)[k] : k \in 1..Len(TagListOf(i))}

TagRowsNamed(name) == {k \in 1..Len(tags) : tags[k].name = name}

\* C25: once the up script of migration 4 has resolved, the tags table holds
\* one row for each name of the notes' tag lists and no other row, names that
\* differ in letter case have rows of their own, and each (note, name) pair
\* of the lists has exactly one note_tags row.
C25_TagVocabularyUnique ==
    norm.pc = "resolved" =>
       /\ \A k \in 1..Len(tags) : Cardinality(TagRowsNamed(tags[k].name)) = 1
       /\ {tags[k].name : k \in 1..Len(tags)} =
             UNION {NamesOfNote(i) : i \in 1..Len(notes)}
       /\ \A i \in 1..Len(notes) : \A name \in NamesOfNote(i) :
             Cardinality({r \in note_tags :
                            /\ r.note_id = notes[i].id
                            /\ \E k \in TagRowsNamed(name) :
                                  tags[k].id = r.tag_id}) = 1

\* note 1 lists 'work' twice, note 2 lists 'Work' and 'x': three tag rows
\* and three associations
C25_Witness ==
    /\ norm.pc = "resolved"
    /\ Len(notes) = 2
    /\ TagListOf(1) = <<Wrk, Wrk>>
    /\ TagListOf(2) = <<WrkCap, <<"x">>>>
    /\ Len(tags) = 3
    /\ Cardinality(note_tags) = 3

(***************************************************************************)
(* Properties of the identifiers and of the sections of an extraction.     *)
(***************************************************************************)
\* the identifier of note 1 and of the line doc[i], written out
IdOfLine(i) == <<"1", "-", Digit(i - 1)>>

\* the lines of the body that the k-th todo of the extraction is named after
LinesNamed(k) == {i \in 1..Len(doc) : result.out[k].id = IdOfLine(i)}

\* C26: every todo of an extraction is named noteId-i after the zero-based
\* index i of a list line of the body, which is its source line; the
\* identifiers are pairwise distinct and the indices increase strictly along
\* the sequence.
C26_IdentifierDerivation ==
    Extracted =>
       /\ \A k \in 1..Len(result.out) :
             \E i \in LinesNamed(k) :
                /\ doc[i] \in ListLines
                /\ doc[i] \in DOMAIN PlainItemText
                      => result.out[k].text = PlainItemText[doc[i]]
       /\ \A j, k \in 1..Len(result.out) :
             j < k => /\ result.out[j].id # result.out[k].id
                      /\ \A a \in LinesNamed(j), b \in LinesNamed(k) : a < b

\* "x", "## TODO", "- a", "\t* b": the todos are 1-2 and 1-3
C26_Witness ==
    /\ Extracted
    /\ doc = <<LnProse, LnTodo, LnA, LnIndentedB>>
    /\ Len(result.out) = 2
    /\ result.out[1].id = <<"1", "-", "2">>
    /\ result.out[2].id = <<"1", "-", "3">>

\* the position in the extraction of the todo of line doc[i]
PosOf(i) == CHOOSE k \in 1..Len(result.out) : result.out[k].id = IdOfLine(i)

\* the line doc[i] is a list item with text, in a section opened by the TODO
\* heading doc[h], with list items and blank lines only in between
ItemUnder(h, i) ==
    /\ h < i
    /\ doc[h] \in TodoHeadingLines
    /\ doc[i] \in ItemLines
    /\ \A j \in (h + 1)..(i - 1) : doc[j] \in ListLines \cup {LnBlank}

TodosBefore == extractTodos(1, JoinLines(doc), "t1")
TodosAfter  == extractTodos(1, result.out, "t1")

\* the extraction of the rewritten body holds a todo of this identifier,
\* text and priority
HoldsAfter(id, text, priority) ==
    \E m \in 1..Len(TodosAfter) :
       /\ TodosAfter[m].id = id
       /\ TodosAfter[m].text = text
       /\ TodosAfter[m].priority = priority

\* the todo T = TodosBefore[k] was rewritten and extracted again as claimed
RoundTrip(k) ==
    /\ HoldsAfter(result.todoId, Trim(result.newText), result.newPriority)
    /\ \A j \in 1..Len(TodosBefore) :
          j # k => HoldsAfter(TodosBefore[j].id, TodosBefore[j].text,
                              TodosBefore[j].priority)

\* C28: after the line of an extracted todo T has been rewritten with a new
\* text and a priority, the extraction of the new body holds at T's
\* identifier a todo with the trimmed new text and that priority, and every
\* other todo with its identifier, text and priority.
C28_RewriteExtractRoundTrip ==
    Rewritten =>
       \A k \in 1..Len(TodosBefore) :
          TodosBefore[k].id = result.todoId => RoundTrip(k)

\* the round trip of a new text of one line that begins with no priority
\* token
C28_SingleLinePlainText ==
    (Rewritten /\ result.newText = <<"c">>) =>
       \A k \in 1..Len(TodosBefore) :
          TodosBefore[k].id = result.todoId => RoundTrip(k)

(***************************************************************************)
(* Properties of the reconcile on todos of equal text and under overlap.   *)
(***************************************************************************)
\* the completion data of a candidate and of a stored row
CompletionOfTodo(t) == <<t.completed, t.completedDate, t.completionComment>>
CompletionOfRow(x)  == <<x.completed, x.completed_date, x.completion_comment>>

\* the reconcile of slot r has deleted the rows of its note and queued the
\* rows it will insert
QueuesInserts(r) == rec[r].pc = "delete" /\ rec'[r].pc = "insert"

\* the reconcile of slot r has read the rows of its note
ReadsRows(r) == rec[r].pc = "select" /\ rec'[r].pc = "delete"

\* C29: a reconcile keeps, for each text among the rows it read, one of the
\* rows of this text; the rows it queues for the todos of one text all carry
\* the completion data of that one row, or the defaults when no row it read
\* had this text.
C29_SameTextSameCompletion ==
    [][ \A r \in Reqs :
          /\ ReadsRows(r) =>
                LET read == {x.row : x \in RowsOf(todos, rec[r].noteId)}
                    kept == rec'[r].existingTodosMap
                IN  /\ DOMAIN kept = {x.text : x \in read}
                    /\ \A t \in DOMAIN kept : kept[t] \in read /\ kept[t].text = t
          /\ QueuesInserts(r) =>
                \A x \in rec'[r].pending :
                   CompletionOfTodo(x) =
                      IF x.text \in DOMAIN rec[r].existingTodosMap
                      THEN CompletionOfRow(rec[r].existingTodosMap[x.text])
                      ELSE <<FALSE, NULL, NULL>>
      ]_vars

\* a note whose two todos of text "a" were stored, one completed and one
\* not, is being reconciled: the rows are read and not yet deleted
C29_StoredDuplicatesDiffer ==
    \E r \in Reqs :
       /\ rec[r].pc = "delete"
       /\ \E x, y \in RowsOf(todos, rec[r].noteId) :
             /\ x.row.text = y.row.text
             /\ x.row.completed /\ ~y.row.completed

\* the two rows of text "a" queued by a reconcile are both completed
C29_Witness ==
    \E r \in Reqs :
       /\ rec[r].pc = "insert"
       /\ \E x, y \in rec[r].pending :
             /\ x.id # y.id /\ x.text = y.text
             /\ x.completed /\ y.completed

\* PUT /api/todos/:id of slot r with completed = true is answered with
\* success
AnswersCompletion(r) ==
    /\ req[r].kind = "putTodo" /\ req[r].pc = "get" /\ req[r].completed
    /\ resp'[r] = "200"

\* a reconcile started by another request has run to its end while the
\* update was being handled; it was a reconcile of note 1, the only note, as
\* no note was created
ReconcileFinished(r) ==
    /\ overlap
    /\ lastID = 1
    /\ \A q \in Reqs : ~RecActive(q)
    /\ \E q \in Reqs \ {r} : rec[q].pc = "done" /\ ~rec[q].failed

\* C30: when a completion update of a todo of note 1 is answered with
\* success and a reconcile of the note that overlapped it has finished, a
\* stored todo of the note with the text of the updated todo is completed.
C30_NoLostCompletion ==
    [][ \A r \in Reqs :
          (AnswersCompletion(r) /\ ReconcileFinished(r)) =>
             LET row == todos[req[r].todoId]
             IN  row.note_id = 1 =>
                    \E x \in RowsOf(todos, 1) :
                       x.row.text = row.text /\ x.row.completed
      ]_vars

(***************************************************************************)
(* Properties of the responses under overlap.                              *)
(***************************************************************************)
\* C31: no handler raises an unhandled exception: no request ends with the
\* TypeError of a callback that reads a field of a row that is gone.
C31_NoUnhandledException ==
    \A r \in Reqs : resp[r] # "throw"

\* C32: when no request and no reconcile is in flight, every stored todo
\* with a note reference refers to a note that exists.
C32_TodosReferToNotes ==
    Quiescent =>
       \A k \in DOMAIN todos :
          ~IsNullRef(todos[k].note_id) => todos[k].note_id \in DOMAIN notes

(***************************************************************************)
(* Properties of the update of one todo.                                   *)
(***************************************************************************)
\* PUT /api/todos/:id of slot r has run its UPDATE on a stored row
UpdatesTodo(r) ==
    /\ req[r].pc = "idle"
    /\ req'[r].kind = "putTodo" /\ req'[r].pc = "get"

\* C33: an update whose body supplies only a priority changes only the
\* stored priority of the todo; an update whose body has no priority leaves
\* the stored priority as it was; in both cases the text and the note
\* reference of the todo and every other todo are unchanged.
C33_FieldWiseUpdate ==
    [][ \A r \in Reqs :
          UpdatesTodo(r) =>
             LET id  == req'[r].todoId
                 old == todos[id]
                 new == todos'[id]
             IN  /\ ( ~req'[r].completedGiven /\ req'[r].priority # UNDEFINED )
                       => new = [old EXCEPT !.priority = req'[r].priority]
                 /\ req'[r].priority = UNDEFINED => new.priority = old.priority
                 /\ new.text = old.text /\ new.note_id = old.note_id
                 /\ DOMAIN todos' = DOMAIN todos
                 /\ \A k \in DOMAIN todos \ {id} : todos'[k] = todos[k]
      ]_vars

\* C34: for every stored todo the completed date is set exactly when the
\* todo is completed, and a completion comment is stored only when it is.
C34_CompletionFieldsAgree ==
    \A k \in DOMAIN todos :
       /\ (todos[k].completed_date # NULL) <=> todos[k].completed
       /\ todos[k].completion_comment # NULL => todos[k].completed

(***************************************************************************)
(* Properties of the carry-forward and of the frame of a reconcile.        *)
(***************************************************************************)
\* the todo the extractor yields for the identifier id of the reconcile of
\* slot r
ParsedOf(r, id) ==
    LET newTodos == extractTodos(rec[r].noteId, rec[r].content, rec[r].noteTitle)
    IN  newTodos[CHOOSE j \in 1..Len(newTodos) : newTodos[j].id = id]

\* C35: a candidate whose text is the text of no stored todo of the note is
\* queued with completed = false, no completed date, no completion comment
\* and the priority parsed from its line, whatever was stored under its
\* identifier.
C35_NewTextStartsFresh ==
    [][ \A r \in Reqs :
          QueuesInserts(r) =>
             \A x \in rec'[r].pending :
                (\A y \in RowsOf(todos, rec[r].noteId) : y.row.text # x.text)
                => /\ CompletionOfTodo(x) = <<FALSE, NULL, NULL>>
                   /\ x.priority = ParsedOf(r, x.id).priority
      ]_vars

\* the reconcile queues a todo of text "b" that is not completed under an
\* identifier whose stored row, of another text, was completed
C35_Witness ==
    \E r \in Reqs :
       /\ rec[r].pc = "insert"
       /\ \E x \in rec[r].pending :
             /\ x.text = <<"b">> /\ ~x.completed
             /\ \E y \in rec[r].pre :
                   y.id = x.id /\ y.row.text # x.text /\ y.row.completed

\* the reconcile of slot r takes a step
ReconcileStep(r) ==
    rec[r].pc \in {"select", "delete", "insert"} /\ rec'[r] # rec[r]

\* C36: a step of the reconcile of note n keeps only rows of note n from its
\* read, leaves every row of another owner (another note, or none) as it
\* is, adds only rows of note n, and none of the rows it queues has the
\* identifier of a row of another owner.
C36_ReconcileFrame ==
    [][ \A r \in Reqs :
          ReconcileStep(r) =>
             LET n == rec[r].noteId
             IN  /\ ReadsRows(r) =>
                       \A t \in DOMAIN rec'[r].existingTodosMap :
                          rec'[r].existingTodosMap[t].note_id = n
                 /\ \A k \in DOMAIN todos :
                       todos[k].note_id # n
                       => k \in DOMAIN todos' /\ todos'[k] = todos[k]
                 /\ \A k \in DOMAIN todos' \ DOMAIN todos : todos'[k].note_id = n
                 /\ QueuesInserts(r) =>
                       \A x \in rec'[r].pending :
                          x.id \in DOMAIN todos' => todos'[x.id].note_id = n
      ]_vars

\* the reconcile of note 2 has deleted and is inserting while note 1 has its
\* todos and the standalone todo is stored
C36_Witness ==
    \E r \in Reqs :
       /\ rec[r].pc = "insert" /\ rec[r].noteId = 2
       /\ RowsOf(todos, 1) # {}
       /\ StandaloneId \in DOMAIN todos
       /\ todos[StandaloneId] = StandaloneRow

\* C37: in a quiescent state of a run of non-overlapping requests, the note
\* title kept in each todo of a stored note is the title of that note.
C37_TitleSnapshot ==
    (Quiescent /\ ~overlap) =>
       \A k \in DOMAIN todos :
          todos[k].note_id \in DOMAIN notes
          => todos[k].note_title = notes[todos[k].note_id].title

\* the same, in the runs in which no store operation has failed
C37_TitleSnapshotReliableStore ==
    (Quiescent /\ ~overlap /\ nfault = 0) =>
       \A k \in DOMAIN todos :
          todos[k].note_id \in DOMAIN notes
          => todos[k].note_title = notes[todos[k].note_id].title

\* C38: standalone todos stay usable after startup: once every migration is
\* applied and the startup run is done, a POST /api/standalone-todos that meets
\* no store error answers 200 and stores the todo, and the listing that
\* follows, meeting no store error, returns it
StartupApplied == migrations = MigVersions /\ mm.pc = "done"

C38_StandaloneTodosUsable ==
    [][ /\ (/\ StartupApplied
            /\ result = NoResult
            /\ result' # NoResult
            /\ nfault' = nfault)
           => /\ result'.post = "200"
              /\ PostedId \in DOMAIN standalone_todos'.rows
        /\ (/\ StartupApplied
            /\ result # NoResult
            /\ result.list = NoListing
            /\ result'.list # NoListing
            /\ nfault' = nfault)
           => /\ result'.list.status = "200"
              /\ PostedId \in result'.list.ids ]_vars

\* C39: the up script of migration 4 eventually settles: whatever the notes
\* hold, its promise is eventually resolved or rejected; it is resolved only
\* when every selected note is counted as processed, and a store error
\* leaves it rejected.
Settled == norm.pc \in {"resolved", "rejected"}

C39_UpScriptSettles ==
    /\ [](norm.pc = "resolved" => norm.processed = norm.total)
    /\ [](nfault > 0 => norm.pc = "rejected")
    /\ <>Settled

\* the same for notes none of whose tag lists holds null
C39_UpScriptSettlesNamedTags ==
    (\A i \in 1..Len(notes) : notes[i].tags # NullNameJSON)
       => C39_UpScriptSettles

====
